---- MODULE Spec2Model ----
(***************************************************************************)
(* A model of the filelock repository: the flock based UnixFileLock, the   *)
(* existence based SoftFileLock, the legacy filelock.py FileLock, and the  *)
(* two-file read/write lock built on inner/outer lock files.               *)
(*                                                                         *)
(* The kernel part (directory entries, inodes, link counts, open file      *)
(* descriptions and their flock state) is shared by all lock classes.      *)
(* Every client (a thread or a process that owns lock objects) advances    *)
(* one system call or one Python statement group per step, so that every   *)
(* interleaving of the system calls of different clients is explored.      *)
(***************************************************************************)
EXTENDS Integers, Sequences, FiniteSets, TLC

\* ------------------------------------------------------------------ bounds
\* Number of UnixFileLock instances contending for one path (SpecUnix).
NUnix == 2
\* Deepest nesting of acquire on one instance that the clients try.
MaxDepth == 2
\* Number of READ objects of the two-file read/write lock; there is one WRITE
\* object beside them.
NReaders == 2
\* Number of SoftFileLock instances (one process each) contending for one path.
NSoft == 2
\* Number of legacy filelock.py FileLock objects contending for one path.
NLegacy == 2
\* Number of FileLock instances on one file in the deadlock-registry model; they
\* are spread over threads two by two.
NDeadlock == 3
\* Number of references to singleton ReadWriteLock instances that callers hold
\* at a time (SpecSingleton).
NRefs == 3
\* Number of threads that use SQLite-backed ReadWriteLock instances on one
\* database file: the first two share one instance, the others another one.
NSqThreads == 3
\* Number of WindowsFileLock instances on the lock path (SpecWindows).
NWin == 2
\* Number of UnixFileLock instances on a filesystem without flock (SpecFallback).
NFallback == 2
\* Number of threads that call one FileLock object of filelock.py (SpecThreads).
NThreads == 2
\* Largest timeout, in clock ticks, given to a read/write acquire (SpecBudget).
MaxTimeout == 3

\* ------------------------------------------------------------- identifiers
UnixInsts == 1 .. NUnix

\* Read/write lock objects: the readers come first, then the writers.
Readers == 1 .. NReaders
Writers == {NReaders + 1}
RWObjs == Readers \cup Writers
\* self.read_write_mode
read_write_mode(o) == IF o \in Readers THEN "read" ELSE "write"

\* A lock instance is <<kind, owner>>; kind "excl" is a plain UnixFileLock,
\* "inner" and "outer" are the _inner_lock and _outer_lock of a read/write object.
UnixLocks == {<<"excl", i>> : i \in UnixInsts}
_inner_lock(o) == <<"inner", o>>
_outer_lock(o) == <<"outer", o>>
RWLocks == {_inner_lock(o) : o \in RWObjs} \cup {_outer_lock(o) : o \in RWObjs}
\* Kind "soft" is a SoftFileLock, kind "legacy" a FileLock of filelock.py.
SoftLocks == {<<"soft", i>> : i \in 1 .. NSoft}
LegacyLocks == {<<"legacy", i>> : i \in 1 .. NLegacy}
\* Kind "dl" is a FileLock whose acquire consults the deadlock registry.
DeadlockLocks == {<<"dl", i>> : i \in 1 .. NDeadlock}
\* Kind "win" is a WindowsFileLock.
WinLocks == {<<"win", i>> : i \in 1 .. NWin}
\* Kind "fb" is a UnixFileLock on a filesystem whose flock reports ENOSYS.
FallbackLocks == {<<"fb", i>> : i \in 1 .. NFallback}
\* <<"thr", i>> is thread i of the process that shares one FileLock object of
\* filelock.py: the descriptor the thread's _acquire opened, and the thread's calls.
ThreadIds == 1 .. NThreads
ThreadLocks == {<<"thr", i>> : i \in ThreadIds}
LockIds == UnixLocks \cup RWLocks \cup SoftLocks \cup LegacyLocks \cup DeadlockLocks \cup WinLocks
             \cup FallbackLocks \cup ThreadLocks

\* Every lock instance has at most one descriptor open at a time (the local
\* fd of _acquire, which becomes _context.lock_file_fd), so an open file
\* description is identified by the instance that opened it.
Handles == LockIds

Paths == {"lock", "inner", "outer", "legacy"}

\* Inode numbers carry no meaning beyond equality, so they are kept canonical:
\* the inode a path names has the path's number, and an unlinked inode that is
\* still open has a number made of the lowest-ranked descriptor open on it.
NoInode == 0
LiveInode(p) ==
  CASE p = "lock" -> 1 [] p = "inner" -> 2 [] p = "outer" -> 3 [] p = "legacy" -> 4
Rank(h) ==
  7 * h[2] + (CASE h[1] = "excl" -> 0 [] h[1] = "inner" -> 1 [] h[1] = "outer" -> 2
                [] h[1] = "legacy" -> 3 [] h[1] = "soft" -> 4 [] h[1] = "dl" -> 5
                [] h[1] = "thr" -> 6)
DeadInode(h) == Rank(h)

\* The path an instance was constructed with.
lock_file(l) == IF l[1] \in {"excl", "dl"} THEN "lock" ELSE IF l[1] = "thr" THEN "legacy" ELSE l[1]

\* What the soft lock path names: nothing, or the file that process i created.
\* DeadPid is a process that wrote a lock file and died without releasing.
NoFile == 0
DeadPid == NSoft + 1
\* EpermPid is a live process of another user, ErrPid one that os.kill cannot
\* examine for another reason.
EpermPid == NSoft + 2
ErrPid == NSoft + 3
\* os.getpid() of the process that owns a SoftFileLock instance.
getpid(l) == l[2]
\* A mutated class choice: every read/write object gets the exclusive class.
IsSharedNever(l) == FALSE
\* file_lock_cls: a READ object builds both its locks from _shared_file_lock_cls
\* (flock with LOCK_SH), a WRITE object from _exclusive_file_lock_cls.
IsShared(l) == l[1] \in {"inner", "outer"} /\ read_write_mode(l[2]) = "read"

VARIABLES
  dirent,        \* [Paths -> inode or NoInode]: what each path names
  hInode,        \* [Handles -> inode or NoInode]: inode of the open descriptor
  hLock,         \* [Handles -> {"un","sh","ex"}]: flock state of the descriptor
  lock_file_fd,  \* [LockIds -> BOOLEAN]: _context.lock_file_fd is not None
  lock_counter,  \* [LockIds -> Nat]: _context.lock_counter
  step,          \* [LockIds -> STRING]: where the instance's current call stands
  timed,         \* [LockIds -> BOOLEAN]: the running acquire has a finite timeout
  rw_pc,         \* [RWObjs -> STRING]: where a read/write object's call stands
  rw_timed,      \* [RWObjs -> BOOLEAN]: the running read/write acquire got a timeout
  rw_depth,      \* [RWObjs -> Nat]: acquire calls that returned and are not yet released
  soft_file,     \* pid of the creator of the file at the soft lock path, or NoFile
  soft_written,  \* the file at the soft lock path has its "pid\nhostname\n" content
  soft_lines,    \* layout of that content: "pid_host", "single", "foreign", "non_numeric"
  soft_old,      \* its st_mtime is at least _STALE_LOCK_MIN_AGE in the past
  soft_expired,  \* its st_mtime is at least the lifetime of the instances in the past
  soft_seen,     \* [SoftLocks -> pid]: pid_str read by the running stale check
  soft_break,    \* [SoftLocks -> pid or NoFile]: file at <lock_file>.break.<pid>
  acquires,      \* [LegacyLocks -> Int]: acquires returned and not yet released
  peak,          \* [LegacyLocks -> Nat]: deepest nesting since the object was unheld
  outstanding,   \* [LegacyLocks -> Nat]: acquires that returned and await their release
  in_with,       \* [LegacyLocks -> STRING]: where the object's with-block stands;
                 \* "finalized" once __del__ has run on the object
  forced,        \* [LegacyLocks -> Int]: counter at which the last call forced a release;
                 \* -1 when it forced the release of an object that was not locked
  held,          \* [RegistryKeys -> entry]: the deadlock registry
  _instances,    \* [SqFiles -> instance or NoInstance]: ReadWriteLock._instances
  inst_timeout,  \* [InstIds -> timeout]: instance.timeout
  inst_blocking, \* [InstIds -> BOOLEAN]: instance.blocking
  ref,           \* [Refs -> <<instance, spelling>> or NoRef]: what each caller got
  last_call,     \* <<resolved path, timeout, blocking>> of the last construction
  last_error,    \* "none" or "ValueError": how the last construction ended
  _lock_level,       \* [SqInsts -> Nat]: self._lock_level
  _current_mode,     \* [SqInsts -> {"none","read","write"}]: self._current_mode
  _write_thread_id,  \* [SqInsts -> thread or NoThread]: self._write_thread_id
  _transaction_lock, \* [SqInsts -> thread or NoThread]: holder of self._transaction_lock
  con,               \* [SqInsts -> {"none","begun","read","write"}]: transaction of self.con
  sq_pc,             \* [SqThreads -> STRING]: where the thread's call stands
  sq_call,           \* [SqThreads -> <<mode, timeout, blocking>>]: the call's arguments
  \* WindowsFileLock: the lock path and the handles open on it
  win_path,      \* "none", "file", "dir" (a directory), "noparent" (no parent directory)
  win_fd,        \* [WinLocks -> BOOLEAN]: the instance has a descriptor open on the file
  win_lk,        \* index of the instance whose descriptor holds the byte lock, or 0
  backend,       \* [FallbackLocks -> "unix" or "soft"]: the backend the instance uses
  \* one FileLock object of filelock.py shared by the threads of a process
  _lock_counter, \* self._lock_counter
  _lock_file_fd, \* self._lock_file_fd: the thread whose descriptor it is, or 0 for None
  _thread_lock,  \* self._thread_lock: the thread inside `with self._thread_lock`, or 0
  completed,     \* acquire calls that returned since the calls last balanced;
                 \* -1 once an acquire raised Timeout after its own _acquire took the lock
  released,      \* release calls made since the calls last balanced
  budget         \* one read/write acquire with its clock: pc, cls ("sync" or "async"),
                 \* arg (the timeout argument), timeout (the local variable),
                 \* elapsed (time.monotonic() - start_time, in ticks)

kernelVars == <<dirent, hInode, hLock>>
lockVars == <<lock_file_fd, lock_counter, step, timed>>
rwVars == <<rw_pc, rw_timed, rw_depth>>
softVars == <<soft_file, soft_written, soft_lines, soft_old, soft_expired, soft_seen, soft_break>>
historyVars == <<acquires, peak, outstanding, in_with, forced>>
singletonVars == <<_instances, inst_timeout, inst_blocking, ref, last_call, last_error>>
sqliteVars == <<_lock_level, _current_mode, _write_thread_id, _transaction_lock, con,
                sq_pc, sq_call>>
winVars == <<win_path, win_fd, win_lk>>
threadVars == <<_lock_counter, _lock_file_fd, _thread_lock, completed, released>>
vars == <<dirent, hInode, hLock, lock_file_fd, lock_counter, step, timed,
          rw_pc, rw_timed, rw_depth, soft_file, soft_written, soft_lines, soft_old, soft_expired, soft_seen,
          soft_break, acquires, peak, outstanding, in_with, forced, held,
          singletonVars, sqliteVars, winVars, backend, threadVars, budget>>

\* ------------------------------------------------------- deadlock registry
\* threading.get_ident() of the thread that drives the instance: instances 1 and
\* 2 belong to thread 1, instance 3 to thread 2, and so on.
get_ident(l) == (l[2] + 1) \div 2
\* The spelling of the path an instance was constructed with: the even
\* instances name the lock file by a second spelling ("link": a symbolic link
\* or a relative form of the path).
given_path(l) == IF l[2] % 2 = 0 THEN "link" ELSE "lock"
\* A mutated canonicalisation that keeps the spelling as given.
realpathIdentity(p) == p
\* The canonical path: symbolic links resolved.
realpath(p) == IF p = "link" THEN "lock" ELSE p
canonical(l) == realpath(given_path(l))
\* The registry maps a path to <<instance, owner thread>>, or to no entry.
RegistryKeys == {"lock", "link"}
NoEntry == <<>>

\* ------------------------------------------------- ReadWriteLock (SQLite)
\* Spellings of database paths and the files they resolve to.
SqSpellings == {"a.db", "./a.db", "b.db"}
SqFiles == {"a.db", "b.db"}
\* pathlib.Path(lock_file).resolve()
resolve(s) == IF s = "./a.db" THEN "a.db" ELSE s
\* timeout arguments: -1 waits without limit, 0, and a positive budget.
SqTimeouts == {-1, 0, 1}
Refs == 1 .. NRefs
InstIds == 1 .. NRefs
NoInstance == 0
NoRef == <<>>
\* Threads and the instance each one uses.
SqThreads == 1 .. NSqThreads
SqInsts == {1, 2}
sq_inst(t) == IF t <= 2 THEN 1 ELSE 2
NoThread == 0
_MAX_SQLITE_TIMEOUT_MS == 1999999999

\* ------------------------------------------------------------------ kernel
\* os.fstat(fd).st_nlink: 1 while a path names the descriptor's inode, else 0.
st_nlink(h) == IF \E p \in Paths : hInode[h] = LiveInode(p) THEN 1 ELSE 0

\* The descriptors' inodes after unlink(p): the inode p named is now unlinked.
AfterUnlink(p) ==
  LET G == {h \in Handles : hInode[h] = LiveInode(p)}
      r == CHOOSE h \in G : \A g \in G : Rank(h) <= Rank(g)
  IN [h \in Handles |-> IF h \in G THEN DeadInode(r) ELSE hInode[h]]

\* The descriptors' inodes after h closed its descriptor.
AfterClose(h) ==
  LET G == {g \in Handles \ {h} : hInode[g] = hInode[h]}
      r == CHOOSE x \in G : \A g \in G : Rank(x) <= Rank(g)
  IN [g \in Handles |->
        IF g = h THEN NoInode
        ELSE IF g \in G /\ hInode[h] = DeadInode(h) THEN DeadInode(r)
        ELSE hInode[g]]

\* flock(fd, LOCK_EX | LOCK_NB) succeeds iff no other description locks the inode;
\* flock(fd, LOCK_SH | LOCK_NB) succeeds iff no other description holds it exclusively.
FlockGranted(h, shared) ==
  \A g \in Handles \ {h} :
     hInode[g] = hInode[h] => IF shared THEN hLock[g] # "ex" ELSE hLock[g] = "un"

is_locked(l) == lock_file_fd[l]

\* Statements that touch only the caller's own Python objects, and the close of
\* a descriptor that holds no lock, commute with every step of every other
\* client.  They are taken before any client's next system call, which loses no
\* interleaving of the system calls.
LocalPending(l) == step[l] \in {"poll", "release", "close"}
RWLocalPending(o) ==
  \/ rw_pc[o] = "outer" /\ step[<<"outer", o>>] \in {"ok", "timeout"}
  \/ rw_pc[o] = "inner" /\ step[<<"inner", o>>] \in {"ok", "timeout"}
  \/ rw_pc[o] = "unouter" /\ step[<<"outer", o>>] = "idle"
  \/ rw_pc[o] \in {"rel_inner", "rel_inner_f"} /\ step[<<"inner", o>>] = "idle"
  \/ rw_pc[o] = "rel_outer" /\ step[<<"outer", o>>] = "idle"
NoLocalPending ==
  /\ \A l \in LockIds : ~LocalPending(l)
  /\ \A o \in RWObjs : ~RWLocalPending(o)

\* --------------------------------------------------- UnixFileLock._acquire
\* os.open(lock_file, O_RDWR | O_TRUNC | O_NOFOLLOW | O_CREAT): creates the
\* file when the path names nothing.
UnixOpen(l) ==
  /\ NoLocalPending
  /\ step[l] = "open"
  /\ LET p == lock_file(l)
     IN /\ dirent' = [dirent EXCEPT ![p] = LiveInode(p)]
        /\ hInode' = [hInode EXCEPT ![l] = LiveInode(p)]
  /\ step' = [step EXCEPT ![l] = "flock"]
  /\ UNCHANGED <<hLock, lock_file_fd, lock_counter, timed>>

\* fcntl.flock(fd, LOCK_EX | LOCK_NB); EAGAIN / EWOULDBLOCK closes the descriptor.
UnixFlock(l) ==
  /\ NoLocalPending
  /\ step[l] = "flock"
  /\ IF FlockGranted(l, IsShared(l))
       THEN /\ hLock' = [hLock EXCEPT ![l] = IF IsShared(l) THEN "sh" ELSE "ex"]
            /\ step' = [step EXCEPT ![l] = "fstat"]
            /\ UNCHANGED hInode
       ELSE /\ hInode' = AfterClose(l)
            /\ step' = [step EXCEPT ![l] = "poll"]
            /\ UNCHANGED hLock
  /\ UNCHANGED <<dirent, lock_file_fd, lock_counter, timed>>

\* A mutated link-count check that keeps a lock taken on an unlinked inode.
UnixFstatNoCheck(l) ==
  /\ NoLocalPending
  /\ step[l] = "fstat"
  /\ lock_file_fd' = [lock_file_fd EXCEPT ![l] = TRUE]
  /\ step' = [step EXCEPT ![l] = "poll"]
  /\ UNCHANGED <<dirent, hInode, hLock, lock_counter, timed>>

\* if os.fstat(fd).st_nlink == 0: os.close(fd) else: lock_file_fd = fd
UnixFstat(l) ==
  /\ NoLocalPending
  /\ step[l] = "fstat"
  /\ IF st_nlink(l) = 0
       THEN /\ hInode' = AfterClose(l)
            /\ hLock' = [hLock EXCEPT ![l] = "un"]
            /\ UNCHANGED lock_file_fd
       ELSE /\ lock_file_fd' = [lock_file_fd EXCEPT ![l] = TRUE]
            /\ UNCHANGED <<hInode, hLock>>
  /\ step' = [step EXCEPT ![l] = "poll"]
  /\ UNCHANGED <<dirent, lock_counter, timed>>

\* --------------------------------------------------- UnixFileLock._release
\* A mutated release that drops the flock before the path is unlinked.
UnixReleaseFdUnlocksFirst(l) ==
  /\ step[l] = "release"
  /\ lock_file_fd' = [lock_file_fd EXCEPT ![l] = FALSE]
  /\ hLock' = [hLock EXCEPT ![l] = "un"]
  /\ step' = [step EXCEPT ![l] = "unlink"]
  /\ UNCHANGED <<dirent, hInode, lock_counter, timed>>

\* fd = lock_file_fd; lock_file_fd = None
UnixReleaseFd(l) ==
  /\ step[l] = "release"
  /\ lock_file_fd' = [lock_file_fd EXCEPT ![l] = FALSE]
  /\ step' = [step EXCEPT ![l] = "unlink"]
  /\ UNCHANGED <<dirent, hInode, hLock, lock_counter, timed>>

\* with suppress(OSError): Path(lock_file).unlink()
UnixUnlink(l) ==
  /\ NoLocalPending
  /\ step[l] = "unlink"
  /\ LET p == lock_file(l) IN
       IF dirent[p] = NoInode
         THEN UNCHANGED <<dirent, hInode>>
         ELSE /\ hInode' = AfterUnlink(p)
              /\ dirent' = [dirent EXCEPT ![p] = NoInode]
  /\ step' = [step EXCEPT ![l] = "unlock"]
  /\ UNCHANGED <<hLock, lock_file_fd, lock_counter, timed>>

\* fcntl.flock(fd, LOCK_UN)
UnixUnlock(l) ==
  /\ NoLocalPending
  /\ step[l] = "unlock"
  /\ hLock' = [hLock EXCEPT ![l] = "un"]
  /\ step' = [step EXCEPT ![l] = "close"]
  /\ UNCHANGED <<dirent, hInode, lock_file_fd, lock_counter, timed>>

\* os.close(fd)
UnixClose(l) ==
  /\ step[l] = "close"
  /\ hInode' = AfterClose(l)
  /\ hLock' = [hLock EXCEPT ![l] = "un"]
  /\ step' = [step EXCEPT ![l] = "idle"]
  /\ UNCHANGED <<dirent, lock_file_fd, lock_counter, timed>>

\* ------------------------------------------- BaseFileLock.acquire / release
\* No call is running on the instance; "ok" and "timeout" record how the last
\* acquire ended until its caller has looked at it.
Quiet(l) == step[l] \in {"idle", "ok", "timeout"}

\* acquire(): a held context is re-entered by incrementing the counter;
\* otherwise the poll loop starts.  t says whether the call has a finite timeout.
AcquireCall(l, t) ==
  /\ Quiet(l)
  /\ IF lock_counter[l] > 0
       THEN /\ lock_counter' = [lock_counter EXCEPT ![l] = @ + 1]
            /\ step' = [step EXCEPT ![l] = "ok"]
            /\ UNCHANGED timed
       ELSE /\ step' = [step EXCEPT ![l] = "open"]
            /\ timed' = [timed EXCEPT ![l] = t]
            /\ UNCHANGED lock_counter
  /\ UNCHANGED <<dirent, hInode, hLock, lock_file_fd>>

\* The poll loop after one _acquire: commit on success; on contention raise
\* Timeout when the budget is spent, else sleep and try again.
AcquirePollOk(l) ==
  /\ step[l] = "poll"
  /\ is_locked(l)
  /\ lock_counter' = [lock_counter EXCEPT ![l] = 1]
  /\ step' = [step EXCEPT ![l] = "ok"]
  /\ timed' = [timed EXCEPT ![l] = FALSE]
  /\ UNCHANGED <<dirent, hInode, hLock, lock_file_fd>>

AcquirePollRetry(l) ==
  /\ step[l] = "poll"
  /\ ~is_locked(l)
  /\ step' = [step EXCEPT ![l] = "open"]
  /\ UNCHANGED <<dirent, hInode, hLock, lock_file_fd, lock_counter, timed>>

AcquirePollTimeout(l) ==
  /\ step[l] = "poll"
  /\ ~is_locked(l)
  /\ timed[l]
  /\ step' = [step EXCEPT ![l] = "timeout"]
  /\ timed' = [timed EXCEPT ![l] = FALSE]
  /\ UNCHANGED <<dirent, hInode, hLock, lock_file_fd, lock_counter>>

\* release(force): decrement; at zero (or forced) run _release and zero the counter.
ReleaseCall(l, force) ==
  /\ Quiet(l)
  /\ IF is_locked(l)
       THEN IF lock_counter[l] = 1 \/ force
              THEN /\ lock_counter' = [lock_counter EXCEPT ![l] = 0]
                   /\ step' = [step EXCEPT ![l] = "release"]
              ELSE /\ lock_counter' = [lock_counter EXCEPT ![l] = @ - 1]
                   /\ step' = [step EXCEPT ![l] = "idle"]
       ELSE /\ step' = [step EXCEPT ![l] = "idle"]
            /\ UNCHANGED lock_counter
  /\ UNCHANGED <<dirent, hInode, hLock, lock_file_fd, timed>>

\* -------------------------------------------------------------- SpecUnix
\* The state after construction: no lock file, nothing open, nothing held.
Init ==
  /\ dirent = [p \in Paths |-> NoInode]
  /\ hInode = [h \in Handles |-> NoInode]
  /\ hLock = [h \in Handles |-> "un"]
  /\ lock_file_fd = [l \in LockIds |-> FALSE]
  /\ lock_counter = [l \in LockIds |-> 0]
  /\ step = [l \in LockIds |-> "idle"]
  /\ timed = [l \in LockIds |-> FALSE]
  /\ rw_pc = [o \in RWObjs |-> "idle"]
  /\ rw_timed = [o \in RWObjs |-> FALSE]
  /\ rw_depth = [o \in RWObjs |-> 0]
  /\ soft_file = NoFile
  /\ soft_written = FALSE
  /\ soft_lines = "pid_host"
  /\ soft_old = FALSE
  /\ soft_expired = FALSE
  /\ soft_seen = [l \in SoftLocks \cup FallbackLocks |-> NoFile]
  /\ soft_break = [l \in SoftLocks \cup FallbackLocks |-> NoFile]
  /\ acquires = [l \in LegacyLocks |-> 0]
  /\ peak = [l \in LegacyLocks |-> 0]
  /\ outstanding = [l \in LegacyLocks |-> 0]
  /\ in_with = [l \in LegacyLocks |-> "no"]
  /\ forced = [l \in LegacyLocks |-> 0]
  /\ held = [p \in RegistryKeys |-> NoEntry]
  /\ _instances = [f \in SqFiles |-> NoInstance]
  /\ inst_timeout = [i \in InstIds |-> -1]
  /\ inst_blocking = [i \in InstIds |-> TRUE]
  /\ ref = [k \in Refs |-> NoRef]
  /\ last_call = <<"a.db", -1, TRUE>>
  /\ last_error = "none"
  /\ _lock_level = [i \in SqInsts |-> 0]
  /\ _current_mode = [i \in SqInsts |-> "none"]
  /\ _write_thread_id = [i \in SqInsts |-> NoThread]
  /\ _transaction_lock = [i \in SqInsts |-> NoThread]
  /\ con = [i \in SqInsts |-> "none"]
  /\ sq_pc = [t \in SqThreads |-> "idle"]
  /\ sq_call = [t \in SqThreads |-> <<"read", -1, TRUE>>]
  /\ win_path = "none"
  /\ win_fd = [l \in WinLocks |-> FALSE]
  /\ win_lk = 0
  /\ backend = [l \in FallbackLocks |-> "unix"]
  /\ _lock_counter = 0
  /\ _lock_file_fd = 0
  /\ _thread_lock = 0
  /\ completed = 0
  /\ released = 0
  /\ budget = [pc |-> "idle", cls |-> "sync", arg |-> 0, timeout |-> 0, elapsed |-> 0]

\* Each UnixFileLock instance is driven by its own thread or process.
UAcquire ==
  \E l \in UnixLocks, t \in BOOLEAN :
    /\ NoLocalPending
    /\ step[l] = "idle"
    /\ lock_counter[l] < MaxDepth
    /\ AcquireCall(l, t)
    /\ UNCHANGED <<rwVars, softVars, historyVars, budget, threadVars, backend, winVars, sqliteVars, singletonVars, held>>
URelease ==
  \E l \in UnixLocks, f \in BOOLEAN :
    /\ NoLocalPending
    /\ step[l] = "idle"
    /\ ReleaseCall(l, f)
    /\ UNCHANGED <<rwVars, softVars, historyVars, budget, threadVars, backend, winVars, sqliteVars, singletonVars, held>>
\* acquire() returns, or raises Timeout, to its caller.
UReturn ==
  \E l \in UnixLocks :
    /\ step[l] \in {"ok", "timeout"}
    /\ step' = [step EXCEPT ![l] = "idle"]
    /\ UNCHANGED <<kernelVars, lock_file_fd, lock_counter, timed, rwVars, softVars, historyVars, budget, threadVars, backend, winVars, sqliteVars, singletonVars, held>>
UOpen == \E l \in UnixLocks : UnixOpen(l) /\ UNCHANGED <<rwVars, softVars, historyVars, budget, threadVars, backend, winVars, sqliteVars, singletonVars, held>>
UFlock == \E l \in UnixLocks : UnixFlock(l) /\ UNCHANGED <<rwVars, softVars, historyVars, budget, threadVars, backend, winVars, sqliteVars, singletonVars, held>>
UFstat == \E l \in UnixLocks : UnixFstat(l) /\ UNCHANGED <<rwVars, softVars, historyVars, budget, threadVars, backend, winVars, sqliteVars, singletonVars, held>>
UPollOk == \E l \in UnixLocks : AcquirePollOk(l) /\ UNCHANGED <<rwVars, softVars, historyVars, budget, threadVars, backend, winVars, sqliteVars, singletonVars, held>>
UPollRetry == \E l \in UnixLocks : AcquirePollRetry(l) /\ UNCHANGED <<rwVars, softVars, historyVars, budget, threadVars, backend, winVars, sqliteVars, singletonVars, held>>
UPollTimeout == \E l \in UnixLocks : AcquirePollTimeout(l) /\ UNCHANGED <<rwVars, softVars, historyVars, budget, threadVars, backend, winVars, sqliteVars, singletonVars, held>>
UReleaseFd == \E l \in UnixLocks : UnixReleaseFd(l) /\ UNCHANGED <<rwVars, softVars, historyVars, budget, threadVars, backend, winVars, sqliteVars, singletonVars, held>>
UUnlink == \E l \in UnixLocks : UnixUnlink(l) /\ UNCHANGED <<rwVars, softVars, historyVars, budget, threadVars, backend, winVars, sqliteVars, singletonVars, held>>
UUnlock == \E l \in UnixLocks : UnixUnlock(l) /\ UNCHANGED <<rwVars, softVars, historyVars, budget, threadVars, backend, winVars, sqliteVars, singletonVars, held>>
UClose == \E l \in UnixLocks : UnixClose(l) /\ UNCHANGED <<rwVars, softVars, historyVars, budget, threadVars, backend, winVars, sqliteVars, singletonVars, held>>

UNext ==
  \/ UAcquire \/ URelease \/ UReturn \/ UOpen \/ UFlock \/ UFstat
  \/ UPollOk \/ UPollRetry \/ UPollTimeout
  \/ UReleaseFd \/ UUnlink \/ UUnlock \/ UClose

SpecUnix == Init /\ [][UNext]_vars

\* C1: at most one UnixFileLock instance on the path has is_locked true, in
\* every interleaving of the system calls of acquire and release.
C1_MutualExclusion ==
  Cardinality({l \in UnixLocks : is_locked(l)}) <= 1

\* C1 witness: one instance holds the lock while another one has just been
\* granted flock on the inode the holder's predecessor unlinked (the race the
\* link-count check is for).
C1_Witness ==
  \E a, b \in UnixLocks :
    /\ a # b
    /\ is_locked(a)
    /\ step[b] = "fstat"
    /\ st_nlink(b) = 0

\* ------------------------------------- BaseReadWriteFileLock.acquire / release
\* Each read/write object is driven by its own thread or process.
\* acquire(): start_time = ...; self._outer_lock.acquire(timeout=timeout, ...)
RWAcquire(o, t) ==
  /\ NoLocalPending
  /\ rw_pc[o] = "idle"
  /\ lock_counter[_inner_lock(o)] < MaxDepth
  /\ lock_counter[_outer_lock(o)] < MaxDepth
  /\ AcquireCall(_outer_lock(o), t)
  /\ rw_pc' = [rw_pc EXCEPT ![o] = "outer"]
  /\ rw_timed' = [rw_timed EXCEPT ![o] = t]
  /\ UNCHANGED rw_depth
  /\ UNCHANGED <<softVars, historyVars, budget, threadVars, backend, winVars, sqliteVars, singletonVars, held>>

\* The outer acquire raised Timeout: acquire() raises it to the caller.
RWOuterTimeout(o) ==
  /\ rw_pc[o] = "outer"
  /\ step[_outer_lock(o)] = "timeout"
  /\ rw_pc' = [rw_pc EXCEPT ![o] = "idle"]
  /\ step' = [step EXCEPT ![_outer_lock(o)] = "idle"]
  /\ rw_timed' = [rw_timed EXCEPT ![o] = FALSE]
  /\ UNCHANGED rw_depth
  /\ UNCHANGED <<kernelVars, lock_file_fd, lock_counter, timed>>
  /\ UNCHANGED <<softVars, historyVars, budget, threadVars, backend, winVars, sqliteVars, singletonVars, held>>

\* if timeout: timeout -= dur; self._inner_lock.acquire(timeout=timeout, ...).
\* What is left of a finite timeout can be negative (an unbounded wait) when the
\* outer acquire used up more than the budget, so a timed call may wait untimed.
RWOuterDone(o) ==
  /\ rw_pc[o] = "outer"
  /\ step[_outer_lock(o)] = "ok"
  /\ \E t \in (IF rw_timed[o] THEN BOOLEAN ELSE {FALSE}) : AcquireCall(_inner_lock(o), t)
  /\ rw_pc' = [rw_pc EXCEPT ![o] = "inner"]
  /\ rw_timed' = [rw_timed EXCEPT ![o] = FALSE]
  /\ UNCHANGED rw_depth
  /\ UNCHANGED <<softVars, historyVars, budget, threadVars, backend, winVars, sqliteVars, singletonVars, held>>

\* A mutated READ branch without the finally clause: the outer lock stays held.
RWReadInnerDoneKeepsOuter(o) ==
  /\ rw_pc[o] = "inner"
  /\ read_write_mode(o) = "read"
  /\ step[_inner_lock(o)] \in {"ok", "timeout"}
  /\ step' = [step EXCEPT ![_outer_lock(o)] = "idle"]
  /\ rw_pc' = [rw_pc EXCEPT ![o] = "unouter"]
  /\ UNCHANGED <<kernelVars, lock_file_fd, lock_counter, timed, rw_timed, rw_depth>>
  /\ UNCHANGED <<softVars, historyVars, budget, threadVars, backend, winVars, sqliteVars, singletonVars, held>>

\* READ: try: inner.acquire() finally: self._outer_lock.release()
RWReadInnerDone(o) ==
  /\ rw_pc[o] = "inner"
  /\ read_write_mode(o) = "read"
  /\ step[_inner_lock(o)] \in {"ok", "timeout"}
  /\ ReleaseCall(_outer_lock(o), FALSE)
  /\ rw_pc' = [rw_pc EXCEPT ![o] = "unouter"]
  /\ UNCHANGED <<rw_timed, rw_depth>>
  /\ UNCHANGED <<softVars, historyVars, budget, threadVars, backend, winVars, sqliteVars, singletonVars, held>>

\* READ: the outer release is done; acquire() returns or re-raises.
RWReadReturn(o) ==
  /\ rw_pc[o] = "unouter"
  /\ step[_outer_lock(o)] = "idle"
  /\ rw_pc' = [rw_pc EXCEPT ![o] = "idle"]
  /\ step' = [step EXCEPT ![_inner_lock(o)] = "idle"]
  /\ rw_depth' = [rw_depth EXCEPT ![o] = IF step[_inner_lock(o)] = "ok" THEN @ + 1 ELSE @]
  /\ UNCHANGED <<kernelVars, lock_file_fd, lock_counter, timed, rw_timed>>
  /\ UNCHANGED <<softVars, historyVars, budget, threadVars, backend, winVars, sqliteVars, singletonVars, held>>

\* A mutated WRITE branch that releases the outer lock after the inner acquire,
\* as the READ branch does.
RWWriteInnerDoneDropsOuter(o) ==
  /\ rw_pc[o] = "inner"
  /\ read_write_mode(o) = "write"
  /\ step[_inner_lock(o)] \in {"ok", "timeout"}
  /\ ReleaseCall(_outer_lock(o), FALSE)
  /\ rw_pc' = [rw_pc EXCEPT ![o] = "unouter"]
  /\ UNCHANGED <<rw_timed, rw_depth>>
  /\ UNCHANGED <<softVars, historyVars, budget, threadVars, backend, winVars, sqliteVars, singletonVars, held>>

\* WRITE: self._inner_lock.acquire() returned or raised; so does acquire().
RWWriteInnerDone(o) ==
  /\ rw_pc[o] = "inner"
  /\ read_write_mode(o) = "write"
  /\ step[_inner_lock(o)] \in {"ok", "timeout"}
  /\ rw_pc' = [rw_pc EXCEPT ![o] = "idle"]
  /\ step' = [step EXCEPT ![_inner_lock(o)] = "idle", ![_outer_lock(o)] = "idle"]
  /\ rw_depth' = [rw_depth EXCEPT ![o] = IF step[_inner_lock(o)] = "ok" THEN @ + 1 ELSE @]
  /\ UNCHANGED <<kernelVars, lock_file_fd, lock_counter, timed, rw_timed>>
  /\ UNCHANGED <<softVars, historyVars, budget, threadVars, backend, winVars, sqliteVars, singletonVars, held>>

\* release(force): self._inner_lock.release(force=force)
RWRelease(o, force) ==
  /\ NoLocalPending
  /\ rw_pc[o] = "idle"
  /\ ReleaseCall(_inner_lock(o), force)
  /\ rw_pc' = [rw_pc EXCEPT ![o] = IF force THEN "rel_inner_f" ELSE "rel_inner"]
  /\ rw_depth' = [rw_depth EXCEPT ![o] = IF force \/ @ = 0 THEN 0 ELSE @ - 1]
  /\ UNCHANGED rw_timed
  /\ UNCHANGED <<softVars, historyVars, budget, threadVars, backend, winVars, sqliteVars, singletonVars, held>>

\* if self.read_write_mode == WRITE: self._outer_lock.release(force=force)
RWReleaseOuter(o) ==
  /\ rw_pc[o] \in {"rel_inner", "rel_inner_f"}
  /\ step[_inner_lock(o)] = "idle"
  /\ IF read_write_mode(o) = "write"
       THEN /\ ReleaseCall(_outer_lock(o), rw_pc[o] = "rel_inner_f")
            /\ rw_pc' = [rw_pc EXCEPT ![o] = "rel_outer"]
       ELSE /\ rw_pc' = [rw_pc EXCEPT ![o] = "idle"]
            /\ UNCHANGED <<kernelVars, lockVars>>
  /\ UNCHANGED <<rw_timed, rw_depth>>
  /\ UNCHANGED <<softVars, historyVars, budget, threadVars, backend, winVars, sqliteVars, singletonVars, held>>

\* release() returns once the outer release is done.
RWReleaseReturn(o) ==
  /\ rw_pc[o] = "rel_outer"
  /\ step[_outer_lock(o)] = "idle"
  /\ rw_pc' = [rw_pc EXCEPT ![o] = "idle"]
  /\ UNCHANGED <<kernelVars, lockVars, rw_timed, rw_depth>>
  /\ UNCHANGED <<softVars, historyVars, budget, threadVars, backend, winVars, sqliteVars, singletonVars, held>>

\* One system call of the inner or outer lock of a read/write object whose
\* acquire waits without a time limit.
RWLockStep(o) ==
  /\ \E l \in {_inner_lock(o), _outer_lock(o)} :
       \/ UnixOpen(l) \/ UnixFlock(l) \/ UnixFstat(l)
       \/ AcquirePollOk(l) \/ AcquirePollRetry(l)
       \/ UnixReleaseFd(l) \/ UnixUnlink(l) \/ UnixUnlock(l) \/ UnixClose(l)
  /\ UNCHANGED <<rwVars, softVars, historyVars, budget, threadVars, backend, winVars, sqliteVars, singletonVars, held>>

\* with lock: ...  by a thread that does not hold the object yet, with the
\* default timeout of -1 (wait until acquired).
RWEnter(o) ==
  /\ lock_counter[_inner_lock(o)] = 0
  /\ lock_counter[_outer_lock(o)] = 0
  /\ RWAcquire(o, FALSE)

\* The end of the with block: release().
RWExit(o) ==
  /\ is_locked(_inner_lock(o))
  /\ RWRelease(o, FALSE)

RWNext ==
  \/ \E o \in RWObjs : RWEnter(o)
  \/ \E o \in RWObjs : RWOuterDone(o)
  \/ \E o \in RWObjs : RWReadInnerDone(o)
  \/ \E o \in RWObjs : RWReadReturn(o)
  \/ \E o \in RWObjs : RWWriteInnerDone(o)
  \/ \E o \in RWObjs : RWExit(o)
  \/ \E o \in RWObjs : RWReleaseOuter(o)
  \/ \E o \in RWObjs : RWReleaseReturn(o)
  \/ \E o \in RWObjs : RWLockStep(o)

SpecRW == Init /\ [][RWNext]_vars

\* ------------------------------------------------------------ SpecRWCalls
\* One READ and one WRITE object driven through every form of call: nested
\* acquires, acquires with a timeout, release and release(force=True).
CallObjs == {1} \cup Writers

\* The poll loop of the inner or outer lock raises Timeout.
RWPollTimeout(o) ==
  /\ \E l \in {_inner_lock(o), _outer_lock(o)} : AcquirePollTimeout(l)
  /\ UNCHANGED <<rwVars, softVars, historyVars, budget, threadVars, backend, winVars, sqliteVars, singletonVars, held>>

RWCallsNext ==
  \/ \E o \in CallObjs, t \in BOOLEAN : RWAcquire(o, t)
  \/ \E o \in CallObjs : RWOuterTimeout(o)
  \/ \E o \in CallObjs : RWOuterDone(o)
  \/ \E o \in CallObjs : RWReadInnerDone(o)
  \/ \E o \in CallObjs : RWReadReturn(o)
  \/ \E o \in CallObjs : RWWriteInnerDone(o)
  \/ \E o \in CallObjs, f \in BOOLEAN : RWRelease(o, f)
  \/ \E o \in CallObjs : RWReleaseOuter(o)
  \/ \E o \in CallObjs : RWReleaseReturn(o)
  \/ \E o \in CallObjs : RWLockStep(o)
  \/ \E o \in CallObjs : RWPollTimeout(o)

SpecRWCalls == Init /\ [][RWCallsNext]_vars

\* The read/write objects that hold the lock (is_locked is _inner_lock.is_locked).
ReadersHolding == {o \in Readers : is_locked(_inner_lock(o))}
WritersHolding == {o \in Writers : is_locked(_inner_lock(o))}

\* C2: at every instant either no writer holds (and any number of readers
\* hold), or exactly one writer holds and no reader holds.
C2_ReadersXorWriter ==
  /\ Cardinality(WritersHolding) <= 1
  /\ WritersHolding # {} => ReadersHolding = {}

\* C8: while a writer holds the outer lock, no reader that did not hold the
\* inner lock becomes a holder of it.
C8_WriterPreference ==
  [][\A r \in Readers :
       (~is_locked(_inner_lock(r)) /\ is_locked(_inner_lock(r))')
          => ~\E w \in Writers : is_locked(_outer_lock(w))]_vars

\* No writer has a descriptor open on either lock file: none holds, none waits.
NoWriterAbout ==
  \A w \in Writers :
    hInode[_inner_lock(w)] = NoInode /\ hInode[_outer_lock(w)] = NoInode

\* C10: with no writer holding or waiting, the flock a reader is about to do on
\* the outer or the inner file is granted whatever other readers hold, so its
\* acquire does not wait for them to release.
C10_ReadersShare ==
  \A r \in Readers : \A l \in {_inner_lock(r), _outer_lock(r)} :
    (step[l] = "flock" /\ NoWriterAbout) => FlockGranted(l, IsShared(l))

\* C10 witness: two readers hold the read lock at the same time, on the same
\* inode, with no writer about.
C10_Witness ==
  \E r1, r2 \in Readers :
    /\ r1 # r2
    /\ is_locked(_inner_lock(r1))
    /\ is_locked(_inner_lock(r2))
    /\ hInode[_inner_lock(r1)] = hInode[_inner_lock(r2)]
    /\ hLock[_inner_lock(r1)] = "sh"
    /\ hLock[_inner_lock(r2)] = "sh"
    /\ NoWriterAbout

\* ------------------------------------------------------------ SpecRWFair
\* Every step the thread of object o can take.
RWStepOf(o) ==
  \/ RWEnter(o) \/ RWOuterDone(o) \/ RWReadInnerDone(o) \/ RWReadReturn(o)
  \/ RWWriteInnerDone(o) \/ RWExit(o) \/ RWReleaseOuter(o)
  \/ RWReleaseReturn(o) \/ RWLockStep(o)

\* The writer's flock on the outer file is granted.
WriterOuterGranted(w) ==
  /\ UnixFlock(_outer_lock(w))
  /\ step'[_outer_lock(w)] = "fstat"
  /\ UNCHANGED <<rwVars, softVars, historyVars, budget, threadVars, backend, winVars, sqliteVars, singletonVars, held>>

\* Every thread keeps running, however the others are scheduled: readers keep
\* arriving and every reader that holds releases, the writer keeps polling, and
\* a writer whose flock could be granted again and again is granted it.
SpecRWFair ==
  /\ Init
  /\ [][RWNext]_vars
  /\ \A o \in RWObjs : SF_vars(RWStepOf(o))
  /\ \A w \in Writers : SF_vars(WriterOuterGranted(w))

\* C9: a writer that has started to acquire eventually holds the write lock.
C9_WriterNotStarved ==
  \A w \in Writers :
    (rw_pc[w] \in {"outer", "inner"}) ~> is_locked(_inner_lock(w))

\* ------------------------------------------------- SoftFileLock._acquire
\* os.open(lock_file, O_WRONLY | O_CREAT | O_EXCL | O_TRUNC): creates the file,
\* or fails with EEXIST and goes on to _try_break_stale_lock.
SoftOpen(l) ==
  /\ NoLocalPending
  /\ step[l] = "open"
  /\ IF soft_file = NoFile
       THEN /\ soft_file' = getpid(l)
            /\ soft_written' = FALSE
            /\ soft_lines' = "pid_host"
            /\ soft_old' = FALSE
            /\ soft_expired' = FALSE
            /\ step' = [step EXCEPT ![l] = "write"]
       ELSE /\ step' = [step EXCEPT ![l] = "stat"]
            /\ UNCHANGED <<soft_file, soft_written, soft_lines, soft_old, soft_expired>>
  /\ UNCHANGED <<kernelVars, lock_file_fd, lock_counter, timed, rwVars,
                 soft_seen, soft_break, historyVars, budget, threadVars, backend, winVars, sqliteVars, singletonVars, held>>

\* _write_lock_info(file_handler); lock_file_fd = file_handler.  The write goes
\* to the file this call created, wherever it is by now, and renews its mtime.
SoftWrite(l) ==
  /\ NoLocalPending
  /\ step[l] = "write"
  /\ soft_written' = (soft_written \/ soft_file = getpid(l))
  /\ soft_lines' = IF soft_file = getpid(l) THEN "pid_host" ELSE soft_lines
  /\ soft_old' = (soft_old /\ soft_file # getpid(l))
  /\ soft_expired' = (soft_expired /\ soft_file # getpid(l))
  /\ lock_file_fd' = [lock_file_fd EXCEPT ![l] = TRUE]
  /\ step' = [step EXCEPT ![l] = "poll"]
  /\ UNCHANGED <<kernelVars, lock_counter, timed, rwVars, soft_file,
                 soft_seen, soft_break, historyVars, budget, threadVars, backend, winVars, sqliteVars, singletonVars, held>>

\* if time.time() - Path(lock_file).stat().st_mtime < _STALE_LOCK_MIN_AGE: return
\* (a missing file raises OSError, which is suppressed).
SoftStat(l) ==
  /\ NoLocalPending
  /\ step[l] = "stat"
  /\ step' = [step EXCEPT ![l] = IF soft_file # NoFile /\ soft_old THEN "read" ELSE "poll"]
  /\ UNCHANGED <<kernelVars, lock_file_fd, lock_counter, timed, rwVars, softVars,
                 historyVars, budget, threadVars, backend, winVars, sqliteVars, singletonVars, held>>

\* content = _read_lock_info(); empty content returns; len(lines) != 2 returns;
\* pid_str, hostname = lines; hostname != socket.gethostname() returns;
\* pid = int(pid_str) raises ValueError, which suppress(OSError) lets through.
SoftRead(l) ==
  /\ NoLocalPending
  /\ step[l] = "read"
  /\ IF soft_file = NoFile \/ ~soft_written \/ soft_lines \in {"single", "foreign"}
       THEN /\ step' = [step EXCEPT ![l] = "poll"]
            /\ UNCHANGED soft_seen
       ELSE IF soft_lines = "non_numeric"
         THEN /\ step' = [step EXCEPT ![l] = "ValueError"]
              /\ UNCHANGED soft_seen
         ELSE /\ soft_seen' = [soft_seen EXCEPT ![l] = soft_file]
              /\ step' = [step EXCEPT ![l] = "probe"]
  /\ UNCHANGED <<kernelVars, lock_file_fd, lock_counter, timed, rwVars, soft_file,
                 soft_written, soft_lines, soft_old, soft_expired, soft_break, historyVars, budget, threadVars, backend, winVars, sqliteVars, singletonVars, held>>

\* A mutated probe that reports every process alive.
_is_process_aliveAlways(pid) == TRUE
\* os.kill(pid, 0): ESRCH for a process that no longer exists.
kill(pid) ==
  IF pid = DeadPid THEN "ESRCH"
  ELSE IF pid = EpermPid THEN "EPERM"
  ELSE IF pid = ErrPid THEN "ENODEV"
  ELSE "ok"
\* except OSError: ESRCH -> False, EPERM -> True, anything else is re-raised.
ProbeRaises(pid) == kill(pid) \notin {"ok", "ESRCH", "EPERM"}
_is_process_alive(pid) == kill(pid) # "ESRCH"

\* if self._is_process_alive(pid): return
SoftProbe(l) ==
  /\ NoLocalPending
  /\ step[l] = "probe"
  /\ step' = [step EXCEPT ![l] = IF ProbeRaises(soft_seen[l]) \/ _is_process_alive(soft_seen[l])
                                    THEN "poll" ELSE "rename"]
  /\ soft_seen' = [soft_seen EXCEPT ![l] = NoFile]
  /\ UNCHANGED <<kernelVars, lock_file_fd, lock_counter, timed, rwVars, soft_file,
                 soft_written, soft_lines, soft_old, soft_expired, soft_break, historyVars, budget, threadVars, backend, winVars, sqliteVars, singletonVars, held>>

\* Path(lock_file).rename(break_path): moves whatever file the path names now.
SoftRename(l) ==
  /\ NoLocalPending
  /\ step[l] = "rename"
  /\ IF soft_file # NoFile
       THEN /\ soft_break' = [soft_break EXCEPT ![l] = soft_file]
            /\ soft_file' = NoFile
            /\ soft_written' = FALSE
            /\ soft_lines' = "pid_host"
            /\ soft_old' = FALSE
            /\ soft_expired' = FALSE
            /\ step' = [step EXCEPT ![l] = "unlink_break"]
       ELSE /\ step' = [step EXCEPT ![l] = "poll"]
            /\ UNCHANGED <<soft_file, soft_written, soft_lines, soft_old, soft_expired, soft_break>>
  /\ UNCHANGED <<kernelVars, lock_file_fd, lock_counter, timed, rwVars, soft_seen,
                 historyVars, budget, threadVars, backend, winVars, sqliteVars, singletonVars, held>>

\* Path(break_path).unlink()
SoftUnlinkBreak(l) ==
  /\ NoLocalPending
  /\ step[l] = "unlink_break"
  /\ soft_break' = [soft_break EXCEPT ![l] = NoFile]
  /\ step' = [step EXCEPT ![l] = "poll"]
  /\ UNCHANGED <<kernelVars, lock_file_fd, lock_counter, timed, rwVars, soft_file,
                 soft_written, soft_lines, soft_old, soft_expired, soft_seen, historyVars, budget, threadVars, backend, winVars, sqliteVars, singletonVars, held>>

\* ------------------------------------------------- SoftFileLock._release
\* os.close(lock_file_fd); lock_file_fd = None
SoftReleaseFd(l) ==
  /\ step[l] = "release"
  /\ lock_file_fd' = [lock_file_fd EXCEPT ![l] = FALSE]
  /\ step' = [step EXCEPT ![l] = "unlink"]
  /\ UNCHANGED <<kernelVars, lock_counter, timed, rwVars, softVars, historyVars, budget, threadVars, backend, winVars, sqliteVars, singletonVars, held>>

\* with suppress(OSError): Path(lock_file).unlink()
SoftUnlink(l) ==
  /\ NoLocalPending
  /\ step[l] = "unlink"
  /\ soft_file' = NoFile
  /\ soft_written' = FALSE
  /\ soft_lines' = "pid_host"
  /\ soft_old' = FALSE
  /\ soft_expired' = FALSE
  /\ step' = [step EXCEPT ![l] = "idle"]
  /\ UNCHANGED <<kernelVars, lock_file_fd, lock_counter, timed, rwVars, soft_seen,
                 soft_break, historyVars, budget, threadVars, backend, winVars, sqliteVars, singletonVars, held>>

\* -------------------------------------------------------------- SpecSoft
\* The lifetime argument of the constructor: the first instance has none, the
\* others have one.
lifetime(l) == IF l[2] = 1 THEN "None" ELSE "set"
\* Each SoftFileLock instance is driven by its own process.
SAcquire ==
  \E l \in SoftLocks, t \in BOOLEAN :
    /\ NoLocalPending
    /\ step[l] = "idle"
    /\ lock_counter[l] < MaxDepth
    /\ AcquireCall(l, t)
    /\ UNCHANGED <<rwVars, softVars, historyVars, budget, threadVars, backend, winVars, sqliteVars, singletonVars, held>>
SRelease ==
  \E l \in SoftLocks, f \in BOOLEAN :
    /\ NoLocalPending
    /\ step[l] = "idle"
    /\ ReleaseCall(l, f)
    /\ UNCHANGED <<rwVars, softVars, historyVars, budget, threadVars, backend, winVars, sqliteVars, singletonVars, held>>
\* acquire() returns, or raises Timeout, to its caller.
SReturn ==
  \E l \in SoftLocks :
    /\ step[l] \in {"ok", "timeout"}
    /\ step' = [step EXCEPT ![l] = "idle"]
    /\ UNCHANGED <<kernelVars, lock_file_fd, lock_counter, timed, rwVars, softVars, historyVars, budget, threadVars, backend, winVars, sqliteVars, singletonVars, held>>
\* The process of a holder dies without releasing: its lock file stays, the
\* pid in it names no process any more, and a new process takes its place.
SCrash ==
  \E l \in SoftLocks :
    /\ NoLocalPending
    /\ step[l] = "idle"
    /\ is_locked(l)
    /\ soft_file = getpid(l)
    /\ soft_file' = DeadPid
    /\ lock_file_fd' = [lock_file_fd EXCEPT ![l] = FALSE]
    /\ lock_counter' = [lock_counter EXCEPT ![l] = 0]
    /\ UNCHANGED <<kernelVars, step, timed, rwVars, soft_written, soft_lines, soft_old, soft_expired,
                   soft_seen, soft_break, historyVars, budget, threadVars, backend, winVars, sqliteVars, singletonVars, held>>
\* The exception of _acquire leaves acquire(); the counter was not yet touched.
SRaised ==
  \E l \in SoftLocks :
    /\ step[l] = "ValueError"
    /\ step' = [step EXCEPT ![l] = "idle"]
    /\ timed' = [timed EXCEPT ![l] = FALSE]
    /\ UNCHANGED <<kernelVars, lock_file_fd, lock_counter, rwVars, softVars, historyVars, budget, threadVars, backend, winVars, sqliteVars, singletonVars, held>>
\* The lock files that another program, or a process on another host, leaves
\* at the path: <<recorded pid, content written, layout>>.
SeededFiles ==
  {<<DeadPid, FALSE, "pid_host">>,
   <<DeadPid, TRUE, "single">>,
   <<DeadPid, TRUE, "non_numeric">>,
   <<DeadPid, TRUE, "foreign">>,
   <<DeadPid, TRUE, "pid_host">>,
   <<EpermPid, TRUE, "pid_host">>,
   <<ErrPid, TRUE, "pid_host">>}
SSeed ==
  \E f \in SeededFiles :
    /\ soft_file = NoFile
    /\ \A l \in SoftLocks : step[l] = "idle" /\ ~is_locked(l)
    /\ soft_file' = f[1]
    /\ soft_written' = f[2]
    /\ soft_lines' = f[3]
    /\ UNCHANGED <<kernelVars, lockVars, rwVars, soft_old, soft_expired, soft_seen,
                   soft_break, historyVars, budget, threadVars, backend, winVars, sqliteVars, singletonVars, held>>
\* _STALE_LOCK_MIN_AGE seconds pass since the lock file was written.
STick ==
  /\ NoLocalPending
  /\ soft_file # NoFile
  /\ ~soft_old
  /\ soft_old' = TRUE
  /\ UNCHANGED <<kernelVars, lockVars, rwVars, soft_file, soft_written, soft_lines, soft_expired, soft_seen,
                 soft_break, historyVars, budget, threadVars, backend, winVars, sqliteVars, singletonVars, held>>
\* The lifetime given to the instances that have one, which is longer than
\* _STALE_LOCK_MIN_AGE, passes since the lock file was written.
STickLifetime ==
  /\ NoLocalPending
  /\ soft_file # NoFile
  /\ soft_old
  /\ ~soft_expired
  /\ soft_expired' = TRUE
  /\ UNCHANGED <<kernelVars, lockVars, rwVars, soft_file, soft_written, soft_lines, soft_old, soft_seen,
                 soft_break, historyVars, budget, threadVars, backend, winVars, sqliteVars, singletonVars, held>>
SOpen == \E l \in SoftLocks : SoftOpen(l)
SWrite == \E l \in SoftLocks : SoftWrite(l)
SStat == \E l \in SoftLocks : SoftStat(l)
SRead == \E l \in SoftLocks : SoftRead(l)
SProbe == \E l \in SoftLocks : SoftProbe(l)
SRename == \E l \in SoftLocks : SoftRename(l)
SUnlinkBreak == \E l \in SoftLocks : SoftUnlinkBreak(l)
SPollOk == \E l \in SoftLocks : AcquirePollOk(l) /\ UNCHANGED <<rwVars, softVars, historyVars, budget, threadVars, backend, winVars, sqliteVars, singletonVars, held>>
SPollRetry == \E l \in SoftLocks : AcquirePollRetry(l) /\ UNCHANGED <<rwVars, softVars, historyVars, budget, threadVars, backend, winVars, sqliteVars, singletonVars, held>>
SPollTimeout == \E l \in SoftLocks : AcquirePollTimeout(l) /\ UNCHANGED <<rwVars, softVars, historyVars, budget, threadVars, backend, winVars, sqliteVars, singletonVars, held>>
SReleaseFd == \E l \in SoftLocks : SoftReleaseFd(l)
SUnlink == \E l \in SoftLocks : SoftUnlink(l)

SNext ==
  \/ SAcquire \/ SRelease \/ SReturn \/ SRaised \/ SCrash \/ SSeed \/ STick \/ STickLifetime
  \/ SOpen \/ SWrite \/ SStat \/ SRead \/ SProbe \/ SRename \/ SUnlinkBreak
  \/ SPollOk \/ SPollRetry \/ SPollTimeout \/ SReleaseFd \/ SUnlink

SpecSoft == Init /\ [][SNext]_vars

\* C3: stale-lock breaking never removes the lock file of a live holder, so at
\* most one SoftFileLock instance holds the lock at any time.
C3_SoftMutualExclusion ==
  Cardinality({l \in SoftLocks : is_locked(l)}) <= 1

\* ------------------------------------------ filelock.py: FileLock (fcntl)
\* The calls on one object are made one after the other by the thread that owns
\* it; the objects run in different threads or processes.
Max(a, b) == IF a >= b THEN a ELSE b

\* acquire(timeout): with _thread_lock: _lock_counter += 1; then the loop
\* while not self.is_locked(), which a held object does not enter.
LegacyAcquire(l, t) ==
  /\ NoLocalPending
  /\ step[l] = "idle"
  /\ lock_counter' = [lock_counter EXCEPT ![l] = @ + 1]
  /\ IF is_locked(l)
       THEN /\ step' = [step EXCEPT ![l] = "ok"]
            /\ UNCHANGED timed
       ELSE /\ step' = [step EXCEPT ![l] = "open"]
            /\ timed' = [timed EXCEPT ![l] = t]
  /\ forced' = [forced EXCEPT ![l] = 0]
  /\ UNCHANGED <<kernelVars, lock_file_fd, rwVars, softVars, budget, threadVars, backend, winVars, sqliteVars, singletonVars, held, acquires, peak, outstanding>>

\* _acquire: fd = os.open(_lock_file, O_RDWR | O_CREAT | O_TRUNC)
LegacyOpen(l) ==
  /\ NoLocalPending
  /\ step[l] = "open"
  /\ LET p == lock_file(l)
     IN /\ dirent' = [dirent EXCEPT ![p] = LiveInode(p)]
        /\ hInode' = [hInode EXCEPT ![l] = LiveInode(p)]
  /\ step' = [step EXCEPT ![l] = "flock"]
  /\ UNCHANGED <<hLock, lock_file_fd, lock_counter, timed, rwVars, softVars, budget, threadVars, backend, winVars, sqliteVars, singletonVars, held, historyVars>>

\* _acquire: fcntl.flock(fd, LOCK_EX | LOCK_NB); except: os.close(fd);
\* else: self._lock_file_fd = fd
LegacyFlock(l) ==
  /\ NoLocalPending
  /\ step[l] = "flock"
  /\ IF FlockGranted(l, FALSE)
       THEN /\ hLock' = [hLock EXCEPT ![l] = "ex"]
            /\ lock_file_fd' = [lock_file_fd EXCEPT ![l] = TRUE]
            /\ UNCHANGED hInode
       ELSE /\ hInode' = AfterClose(l)
            /\ UNCHANGED <<hLock, lock_file_fd>>
  /\ step' = [step EXCEPT ![l] = "poll"]
  /\ UNCHANGED <<dirent, lock_counter, timed, rwVars, softVars, budget, threadVars, backend, winVars, sqliteVars, singletonVars, held, historyVars>>

\* if timeout is not None and time.time() - start_time > timeout: raise Timeout,
\* whether or not _acquire has just taken the lock; the except clause sets
\* _lock_counter = max(0, _lock_counter - 1).
LegacyRaise(l) ==
  /\ step[l] = "poll"
  /\ timed[l]
  /\ lock_counter' = [lock_counter EXCEPT ![l] = Max(0, @ - 1)]
  /\ step' = [step EXCEPT ![l] = "timeout"]
  /\ timed' = [timed EXCEPT ![l] = FALSE]
  /\ acquires' = [acquires EXCEPT ![l] = IF is_locked(l) THEN -1 ELSE @]
  /\ UNCHANGED <<kernelVars, lock_file_fd, rwVars, softVars, budget, threadVars, backend, winVars, sqliteVars, singletonVars, held, peak, outstanding, in_with, forced>>

\* time.sleep(poll_intervall); while not self.is_locked(): again, else return self
LegacyLoop(l) ==
  /\ step[l] = "poll"
  /\ IF is_locked(l)
       THEN /\ step' = [step EXCEPT ![l] = "ok"]
            /\ timed' = [timed EXCEPT ![l] = FALSE]
       ELSE /\ step' = [step EXCEPT ![l] = "open"]
            /\ UNCHANGED timed
  /\ UNCHANGED <<kernelVars, lock_file_fd, lock_counter, rwVars, softVars, budget, threadVars, backend, winVars, sqliteVars, singletonVars, held, historyVars>>

\* acquire() returns to its caller: one more acquire to be released; when
\* __enter__ made the call, the body of the with-block starts.
LegacyReturn(l) ==
  /\ step[l] = "ok"
  /\ step' = [step EXCEPT ![l] = "idle"]
  /\ IF acquires[l] >= 0
       THEN /\ acquires' = [acquires EXCEPT ![l] = @ + 1]
            /\ peak' = [peak EXCEPT ![l] = IF acquires[l] = 0 THEN 1 ELSE Max(@, acquires[l] + 1)]
       ELSE UNCHANGED <<acquires, peak>>
  /\ outstanding' = [outstanding EXCEPT ![l] = @ + 1]
  /\ in_with' = [in_with EXCEPT ![l] = IF @ = "entering" THEN "body" ELSE @]
  /\ UNCHANGED <<kernelVars, lock_file_fd, lock_counter, timed, rwVars, softVars, budget, threadVars, backend, winVars, sqliteVars, singletonVars, held, forced>>

\* acquire() has raised Timeout to its caller.
LegacyRaised(l) ==
  /\ step[l] = "timeout"
  /\ step' = [step EXCEPT ![l] = "idle"]
  /\ UNCHANGED <<kernelVars, lock_file_fd, lock_counter, timed, rwVars, softVars, budget, threadVars, backend, winVars, sqliteVars, singletonVars, held, historyVars>>

\* A mutated release that runs _release at every call, whatever the counter.
LegacyReleaseEager(l, force) ==
  /\ NoLocalPending
  /\ step[l] = "idle"
  /\ IF is_locked(l)
       THEN /\ lock_counter' = [lock_counter EXCEPT ![l] = 0]
            /\ step' = [step EXCEPT ![l] = "unlock"]
            /\ acquires' = [acquires EXCEPT ![l] = IF force THEN 0 ELSE IF @ <= 0 THEN @ ELSE @ - 1]
            /\ peak' = [peak EXCEPT ![l] = IF force THEN 0 ELSE @]
       ELSE UNCHANGED <<lock_counter, step, acquires, peak>>
  /\ outstanding' = [outstanding EXCEPT ![l] = IF force THEN 0 ELSE IF @ > 0 THEN @ - 1 ELSE @]
  /\ forced' = [forced EXCEPT ![l] = IF force /\ is_locked(l) THEN Max(1, lock_counter[l])
                                      ELSE IF force THEN -1 ELSE 0]
  /\ UNCHANGED <<kernelVars, lock_file_fd, timed, rwVars, softVars, budget, threadVars, backend, winVars, sqliteVars, singletonVars, held>>

\* A mutated release that ignores force.
LegacyReleaseUnforced(l, force) ==
  /\ NoLocalPending
  /\ step[l] = "idle"
  /\ IF is_locked(l)
       THEN IF lock_counter[l] - 1 = 0
              THEN /\ lock_counter' = [lock_counter EXCEPT ![l] = 0]
                   /\ step' = [step EXCEPT ![l] = "unlock"]
                   /\ acquires' = [acquires EXCEPT ![l] = IF @ <= 0 THEN @ ELSE @ - 1]
                   /\ UNCHANGED peak
              ELSE /\ lock_counter' = [lock_counter EXCEPT ![l] = @ - 1]
                   /\ acquires' = [acquires EXCEPT ![l] = IF @ <= 0 THEN @ ELSE @ - 1]
                   /\ UNCHANGED <<step, peak>>
       ELSE UNCHANGED <<lock_counter, step, acquires, peak>>
  /\ outstanding' = [outstanding EXCEPT ![l] = IF force THEN 0 ELSE IF @ > 0 THEN @ - 1 ELSE @]
  /\ forced' = [forced EXCEPT ![l] = IF force /\ is_locked(l) THEN Max(1, lock_counter[l])
                                      ELSE IF force THEN -1 ELSE 0]
  /\ UNCHANGED <<kernelVars, lock_file_fd, timed, rwVars, softVars, budget, threadVars, backend, winVars, sqliteVars, singletonVars, held>>

\* A mutated release that removes the lock file when forced on an object that
\* is not locked.
LegacyReleaseForceRemoves(l, force) ==
  /\ NoLocalPending
  /\ step[l] = "idle"
  /\ IF is_locked(l)
       THEN IF lock_counter[l] - 1 = 0 \/ force
              THEN /\ lock_counter' = [lock_counter EXCEPT ![l] = 0]
                   /\ step' = [step EXCEPT ![l] = "unlock"]
                   /\ acquires' = [acquires EXCEPT ![l] = IF force THEN 0 ELSE IF @ <= 0 THEN @ ELSE @ - 1]
                   /\ peak' = [peak EXCEPT ![l] = IF force THEN 0 ELSE @]
              ELSE /\ lock_counter' = [lock_counter EXCEPT ![l] = @ - 1]
                   /\ acquires' = [acquires EXCEPT ![l] = IF @ <= 0 THEN @ ELSE @ - 1]
                   /\ UNCHANGED <<step, peak>>
       ELSE /\ step' = [step EXCEPT ![l] = IF force THEN "remove" ELSE @]
            /\ UNCHANGED <<lock_counter, acquires, peak>>
  /\ outstanding' = [outstanding EXCEPT ![l] = IF force THEN 0 ELSE IF @ > 0 THEN @ - 1 ELSE @]
  /\ forced' = [forced EXCEPT ![l] = IF force /\ is_locked(l) THEN Max(1, lock_counter[l])
                                      ELSE IF force THEN -1 ELSE 0]
  /\ UNCHANGED <<kernelVars, lock_file_fd, timed, rwVars, softVars, budget, threadVars, backend, winVars, held, singletonVars, sqliteVars>>

\* release(force): if self.is_locked(): _lock_counter -= 1;
\* if _lock_counter == 0 or force: _release(); _lock_counter = 0
LegacyRelease(l, force) ==
  /\ NoLocalPending
  /\ step[l] = "idle"
  /\ IF is_locked(l)
       THEN IF lock_counter[l] - 1 = 0 \/ force
              THEN /\ lock_counter' = [lock_counter EXCEPT ![l] = 0]
                   /\ step' = [step EXCEPT ![l] = "unlock"]
                   /\ acquires' = [acquires EXCEPT ![l] = IF force THEN 0 ELSE IF @ <= 0 THEN @ ELSE @ - 1]
                   /\ peak' = [peak EXCEPT ![l] = IF force THEN 0 ELSE @]
              ELSE /\ lock_counter' = [lock_counter EXCEPT ![l] = @ - 1]
                   /\ acquires' = [acquires EXCEPT ![l] = IF @ <= 0 THEN @ ELSE @ - 1]
                   /\ UNCHANGED <<step, peak>>
       ELSE UNCHANGED <<lock_counter, step, acquires, peak>>
  /\ outstanding' = [outstanding EXCEPT ![l] = IF force THEN 0 ELSE IF @ > 0 THEN @ - 1 ELSE @]
  /\ forced' = [forced EXCEPT ![l] = IF force /\ is_locked(l) THEN Max(1, lock_counter[l])
                                      ELSE IF force THEN -1 ELSE 0]
  /\ UNCHANGED <<kernelVars, lock_file_fd, timed, rwVars, softVars, budget, threadVars, backend, winVars, sqliteVars, singletonVars, held>>

\* _release: fcntl.flock(self._lock_file_fd, LOCK_UN)
LegacyUnlock(l) ==
  /\ NoLocalPending
  /\ step[l] = "unlock"
  /\ hLock' = [hLock EXCEPT ![l] = "un"]
  /\ step' = [step EXCEPT ![l] = "close"]
  /\ UNCHANGED <<dirent, hInode, lock_file_fd, lock_counter, timed, rwVars, softVars, budget, threadVars, backend, winVars, sqliteVars, singletonVars, held, historyVars>>

\* _release: os.close(self._lock_file_fd); self._lock_file_fd = None
LegacyClose(l) ==
  /\ step[l] = "close"
  /\ hInode' = AfterClose(l)
  /\ lock_file_fd' = [lock_file_fd EXCEPT ![l] = FALSE]
  /\ step' = [step EXCEPT ![l] = "remove"]
  /\ UNCHANGED <<dirent, hLock, lock_counter, timed, rwVars, softVars, budget, threadVars, backend, winVars, sqliteVars, singletonVars, held, historyVars>>

\* _release: os.remove(self._lock_file), OSError ignored; release() returns with
\* the object unheld, from where the acquires are counted anew.
LegacyRemove(l) ==
  /\ NoLocalPending
  /\ step[l] = "remove"
  /\ LET p == lock_file(l) IN
       IF dirent[p] = NoInode
         THEN UNCHANGED <<dirent, hInode>>
         ELSE /\ hInode' = AfterUnlink(p)
              /\ dirent' = [dirent EXCEPT ![p] = NoInode]
  /\ step' = [step EXCEPT ![l] = "idle"]
  /\ acquires' = [acquires EXCEPT ![l] = IF @ < 0 THEN 0 ELSE @]
  /\ UNCHANGED <<hLock, lock_file_fd, lock_counter, timed, rwVars, softVars, budget, threadVars, backend, winVars, sqliteVars, singletonVars, held, peak,
                 outstanding, in_with, forced>>

\* ------------------------------------------------------------ SpecLegacy
\* The body of a with-block makes no call on the lock object.
OutsideWith(l) == in_with[l] \in {"no", "exited"}
LAcquire ==
  \E l \in LegacyLocks, t \in BOOLEAN :
    /\ lock_counter[l] < MaxDepth
    /\ OutsideWith(l)
    /\ LegacyAcquire(l, t)
    /\ in_with' = [in_with EXCEPT ![l] = "no"]
LRelease ==
  \E l \in LegacyLocks, f \in BOOLEAN :
    /\ lock_counter[l] > -MaxDepth
    /\ OutsideWith(l)
    /\ LegacyRelease(l, f)
    /\ in_with' = [in_with EXCEPT ![l] = "no"]
\* __enter__: self.acquire(); return self
LEnter ==
  \E l \in LegacyLocks :
    /\ lock_counter[l] < MaxDepth
    /\ OutsideWith(l)
    /\ LegacyAcquire(l, FALSE)
    /\ in_with' = [in_with EXCEPT ![l] = "entering"]
\* __exit__: self.release(); return None, whether the body returned or raised.
LExit ==
  \E l \in LegacyLocks :
    /\ in_with[l] = "body"
    /\ LegacyRelease(l, FALSE)
    /\ in_with' = [in_with EXCEPT ![l] = "exited"]
\* __del__: self.release(); return None. The object takes no call afterwards.
LDel ==
  \E l \in LegacyLocks :
    /\ lock_counter[l] > -MaxDepth
    /\ OutsideWith(l)
    /\ LegacyRelease(l, FALSE)
    /\ in_with' = [in_with EXCEPT ![l] = "finalized"]
LOpen == \E l \in LegacyLocks : LegacyOpen(l)
LFlock == \E l \in LegacyLocks : LegacyFlock(l)
LRaise == \E l \in LegacyLocks : LegacyRaise(l)
LLoop == \E l \in LegacyLocks : LegacyLoop(l)
LReturn == \E l \in LegacyLocks : LegacyReturn(l)
LRaised == \E l \in LegacyLocks : LegacyRaised(l)
LUnlock == \E l \in LegacyLocks : LegacyUnlock(l)
LClose == \E l \in LegacyLocks : LegacyClose(l)
LRemove == \E l \in LegacyLocks : LegacyRemove(l)

LNext ==
  \/ LAcquire \/ LRelease \/ LEnter \/ LExit \/ LOpen \/ LFlock \/ LRaise \/ LLoop
  \/ LReturn \/ LRaised \/ LUnlock \/ LClose \/ LRemove \/ LDel

SpecLegacy == Init /\ [][LNext]_vars

\* C4: while one legacy FileLock object on the path holds the lock, no other
\* object on the path holds it.
C4_LegacyMutualExclusion ==
  Cardinality({l \in LegacyLocks : is_locked(l)}) <= 1

\* C5: whenever no call is executing on a legacy object, its lock counter is
\* greater than 0 exactly when it holds the lock file descriptor.
C5_CounterIffLocked ==
  \A l \in LegacyLocks :
    step[l] = "idle" => ((lock_counter[l] > 0) <=> is_locked(l))

\* C6: when acquire raises Timeout (which it does only on an object that was
\* unheld, with counter 0, before the call), the counter is back at its value
\* before the call and the object holds no descriptor.
C6_RaiseLeavesUnheld ==
  \A l \in LegacyLocks :
    step[l] = "timeout" => (lock_counter[l] = 0 /\ ~is_locked(l))

\* C7: on an object that was unheld, after k acquires that returned and j <= k
\* plain releases the lock counter is k - j, and the object is locked exactly
\* when j < k: still locked after each of the first k-1 releases, unlocked
\* after the k-th.
C7_NestedAcquireRelease ==
  \A l \in LegacyLocks :
    (step[l] = "idle" /\ acquires[l] >= 0) =>
       /\ lock_counter[l] = acquires[l]
       /\ is_locked(l) <=> acquires[l] > 0

\* C7 witness: an object acquired MaxDepth times and released as many times is
\* unheld again.
C7_Witness ==
  \E l \in LegacyLocks :
    /\ step[l] = "idle"
    /\ peak[l] = MaxDepth
    /\ acquires[l] = 0
    /\ ~is_locked(l)

\* C17: once release(force=True) on a held object has returned, whatever the
\* nesting depth it was called at, the object is not locked, its counter is 0,
\* and its descriptor is closed with the flock given up, so that another
\* object can take the lock.
C17_ForceReleasesAtAnyDepth ==
  \A l \in LegacyLocks :
    (forced[l] > 0 /\ step[l] = "idle") =>
       /\ ~is_locked(l)
       /\ lock_counter[l] = 0
       /\ hLock[l] = "un"
       /\ hInode[l] = NoInode

\* C17 witness: an object was force-released at depth MaxDepth and another
\* object holds the lock afterwards.
C17_Witness ==
  \E l \in LegacyLocks, m \in LegacyLocks :
    /\ l # m
    /\ forced[l] = MaxDepth
    /\ step[l] = "idle"
    /\ ~is_locked(l)
    /\ is_locked(m)
    /\ hLock[m] = "ex"

\* C18: after a with-block on an object has exited, the object is not locked
\* unless an acquire that returned is still awaiting its release.
C18_WithExitUnlocks ==
  \A l \in LegacyLocks :
    (in_with[l] = "exited" /\ step[l] = "idle" /\ outstanding[l] = 0) => ~is_locked(l)

\* C20: an acquire with a finite timeout (0 included) whose attempt on the OS
\* lock has just succeeded returns with the lock held; it does not raise Timeout.
C20_SuccessfulAttemptReturns ==
  [][\A l \in LegacyLocks :
       (step[l] = "poll" /\ timed[l] /\ is_locked(l)) => step'[l] # "timeout"]_vars

\* C13: when a write-mode acquire raises because the inner lock timed out, the
\* object holds neither lock file and its lock_counter (inner + outer) is what
\* it was before the call.
C13_WriteTimeoutReleasesOuter ==
  [][\A w \in Writers :
       (rw_pc[w] = "inner" /\ step[_inner_lock(w)] = "timeout" /\ rw_pc'[w] = "idle")
          => /\ ~is_locked(_outer_lock(w))'
             /\ ~is_locked(_inner_lock(w))']_vars


\* ------------------------------------------------------------ SpecDeadlock
\* The registry check of acquire: an entry for the canonical path whose
\* instance is not this one and whose thread is the calling thread.
WouldDeadlock(l) ==
  LET e == held[canonical(l)]
  IN e # NoEntry /\ e[1] # l /\ e[2] = get_ident(l)

\* A thread runs one call at a time over the instances it owns.
ThreadFree(l) ==
  \A m \in DeadlockLocks : get_ident(m) = get_ident(l) => step[m] = "idle"

\* acquire(): re-entry, or the registry check and then the poll loop.
DAcquire ==
  \E l \in DeadlockLocks, t \in BOOLEAN :
    /\ NoLocalPending
    /\ ThreadFree(l)
    /\ lock_counter[l] < MaxDepth
    /\ IF lock_counter[l] = 0 /\ WouldDeadlock(l)
         THEN /\ step' = [step EXCEPT ![l] = "deadlock"]
              /\ UNCHANGED <<kernelVars, lock_file_fd, lock_counter, timed>>
         ELSE AcquireCall(l, t)
    /\ UNCHANGED <<rwVars, softVars, historyVars, budget, threadVars, backend, winVars, sqliteVars, singletonVars, held>>

\* The acquired branch of the loop: counter 1 and the registry entry published.
DPollOk ==
  \E l \in DeadlockLocks :
    /\ AcquirePollOk(l)
    /\ held' = [held EXCEPT ![canonical(l)] = <<l, get_ident(l)>>]
    /\ UNCHANGED <<rwVars, softVars, historyVars, budget, threadVars, backend, winVars, sqliteVars, singletonVars>>

\* A mutated release that leaves the registry entry in place when forced from
\* a nested depth.
DReleaseKeepsForced(l, f) ==
  /\ ReleaseCall(l, f)
  /\ held' = IF lock_counter[l] = 1 /\ lock_counter'[l] = 0
              THEN [held EXCEPT ![canonical(l)] = NoEntry]
              ELSE held

\* release(force): the entry goes when the counter reaches zero or is forced
\* to zero.
DReleaseCall(l, f) ==
  /\ ReleaseCall(l, f)
  /\ held' = IF lock_counter[l] > 0 /\ lock_counter'[l] = 0
              THEN [held EXCEPT ![canonical(l)] = NoEntry]
              ELSE held

DRelease ==
  \E l \in DeadlockLocks, f \in BOOLEAN :
    /\ NoLocalPending
    /\ ThreadFree(l)
    /\ DReleaseCall(l, f)
    /\ UNCHANGED <<rwVars, softVars, historyVars, budget, threadVars, backend, winVars, sqliteVars, singletonVars>>

\* acquire() returns, or raises Timeout or the deadlock error, to its caller.
DReturn ==
  \E l \in DeadlockLocks :
    /\ step[l] \in {"ok", "timeout", "deadlock"}
    /\ step' = [step EXCEPT ![l] = "idle"]
    /\ UNCHANGED <<kernelVars, lock_file_fd, lock_counter, timed, rwVars, softVars,
                   historyVars, budget, threadVars, backend, winVars, sqliteVars, singletonVars, held>>
DOpen == \E l \in DeadlockLocks : UnixOpen(l) /\ UNCHANGED <<rwVars, softVars, historyVars, budget, threadVars, backend, winVars, sqliteVars, singletonVars, held>>
DFlock == \E l \in DeadlockLocks : UnixFlock(l) /\ UNCHANGED <<rwVars, softVars, historyVars, budget, threadVars, backend, winVars, sqliteVars, singletonVars, held>>
DFstat == \E l \in DeadlockLocks : UnixFstat(l) /\ UNCHANGED <<rwVars, softVars, historyVars, budget, threadVars, backend, winVars, sqliteVars, singletonVars, held>>
DPollRetry == \E l \in DeadlockLocks : AcquirePollRetry(l) /\ UNCHANGED <<rwVars, softVars, historyVars, budget, threadVars, backend, winVars, sqliteVars, singletonVars, held>>
DPollTimeout == \E l \in DeadlockLocks : AcquirePollTimeout(l) /\ UNCHANGED <<rwVars, softVars, historyVars, budget, threadVars, backend, winVars, sqliteVars, singletonVars, held>>
DReleaseFd == \E l \in DeadlockLocks : UnixReleaseFd(l) /\ UNCHANGED <<rwVars, softVars, historyVars, budget, threadVars, backend, winVars, sqliteVars, singletonVars, held>>
DUnlink == \E l \in DeadlockLocks : UnixUnlink(l) /\ UNCHANGED <<rwVars, softVars, historyVars, budget, threadVars, backend, winVars, sqliteVars, singletonVars, held>>
DUnlock == \E l \in DeadlockLocks : UnixUnlock(l) /\ UNCHANGED <<rwVars, softVars, historyVars, budget, threadVars, backend, winVars, sqliteVars, singletonVars, held>>
DClose == \E l \in DeadlockLocks : UnixClose(l) /\ UNCHANGED <<rwVars, softVars, historyVars, budget, threadVars, backend, winVars, sqliteVars, singletonVars, held>>

DNext ==
  \/ DAcquire \/ DRelease \/ DReturn \/ DOpen \/ DFlock \/ DFstat
  \/ DPollOk \/ DPollRetry \/ DPollTimeout
  \/ DReleaseFd \/ DUnlink \/ DUnlock \/ DClose

SpecDeadlock == Init /\ [][DNext]_vars

\* Another instance on the same file is held by the thread that drives l.
HeldByCallingThread(l) ==
  \E m \in DeadlockLocks \ {l} :
     /\ get_ident(m) = get_ident(l)
     /\ lock_file(m) = lock_file(l)
     /\ lock_counter[m] > 0

C15_RegistryTracksCounter ==
  \A p \in RegistryKeys :
     /\ held[p] # NoEntry <=> \E l \in DeadlockLocks : canonical(l) = p /\ lock_counter[l] > 0
     /\ \A l \in DeadlockLocks :
          (canonical(l) = p /\ lock_counter[l] > 0) => held[p] = <<l, get_ident(l)>>

\* After the first instance was released, the second instance of the same
\* thread holds the file and owns the registry entry.
C15_Witness ==
  /\ lock_counter[<<"dl", 2>>] = MaxDepth
  /\ held["lock"] = <<(<<"dl", 2>>), 1>>
  /\ dirent["lock"] # NoInode
  /\ lock_counter[<<"dl", 1>>] = 0


\* ----------------------------------------------------------- SpecSingleton
\* The instances that some caller still refers to; _instances is a
\* WeakValueDictionary, so the others are gone from it.
Referenced(r) == {r[k][1] : k \in {j \in Refs : r[j] # NoRef}}

\* A mutated get_lock that returns the registered instance without comparing
\* its configuration.
get_lockNoCheck(k, s, t, b) ==
  LET normalized == resolve(s)
      fresh == CHOOSE i \in InstIds :
                 /\ i \notin Referenced(ref)
                 /\ \A j \in InstIds : (j \notin Referenced(ref)) => i <= j
      isNew == _instances[normalized] = NoInstance
      instance == IF isNew THEN fresh ELSE _instances[normalized]
  IN /\ ref[k] = NoRef
     /\ _instances' = [_instances EXCEPT ![normalized] = instance]
     /\ inst_timeout' = IF isNew THEN [inst_timeout EXCEPT ![instance] = t] ELSE inst_timeout
     /\ inst_blocking' = IF isNew THEN [inst_blocking EXCEPT ![instance] = b] ELSE inst_blocking
     /\ last_call' = <<normalized, t, b>>
     /\ last_error' = "none"
     /\ ref' = [ref EXCEPT ![k] = <<instance, s>>]

\* get_lock(lock_file, timeout, blocking=...), the whole body under
\* _instances_lock: create and register when the resolved path is not
\* registered, else fetch; raise ValueError when timeout or blocking differ.
get_lock(k, s, t, b) ==
  LET normalized == resolve(s)
      fresh == CHOOSE i \in InstIds :
                 /\ i \notin Referenced(ref)
                 /\ \A j \in InstIds : (j \notin Referenced(ref)) => i <= j
      isNew == _instances[normalized] = NoInstance
      instance == IF isNew THEN fresh ELSE _instances[normalized]
  IN /\ ref[k] = NoRef
     /\ _instances' = [_instances EXCEPT ![normalized] = instance]
     /\ inst_timeout' = IF isNew THEN [inst_timeout EXCEPT ![instance] = t] ELSE inst_timeout
     /\ inst_blocking' = IF isNew THEN [inst_blocking EXCEPT ![instance] = b] ELSE inst_blocking
     /\ last_call' = <<normalized, t, b>>
     /\ IF inst_timeout'[instance] # t \/ inst_blocking'[instance] # b
          THEN /\ last_error' = "ValueError"
               /\ UNCHANGED ref
          ELSE /\ last_error' = "none"
               /\ ref' = [ref EXCEPT ![k] = <<instance, s>>]

\* ReadWriteLock(lock_file, timeout, blocking=...) with is_singleton=True.
SConstruct ==
  \E k \in Refs, s \in SqSpellings, t \in SqTimeouts, b \in BOOLEAN :
    /\ get_lock(k, s, t, b)
    /\ UNCHANGED <<kernelVars, lockVars, rwVars, softVars, historyVars, budget, threadVars, backend, winVars, sqliteVars, held>>

\* del lock: the caller drops its reference; an instance nobody refers to any
\* more leaves the weak dictionary.
SDel ==
  \E k \in Refs :
    /\ ref[k] # NoRef
    /\ ref' = [ref EXCEPT ![k] = NoRef]
    /\ _instances' = [f \in SqFiles |->
                        IF _instances[f] \in Referenced(ref') THEN _instances[f] ELSE NoInstance]
    /\ inst_timeout' = [i \in InstIds |-> IF i \in Referenced(ref') THEN inst_timeout[i] ELSE -1]
    /\ inst_blocking' = [i \in InstIds |-> IF i \in Referenced(ref') THEN inst_blocking[i] ELSE TRUE]
    /\ last_error' = "none"
    /\ UNCHANGED <<last_call, kernelVars, lockVars, rwVars, softVars, historyVars, budget, threadVars, backend, winVars, sqliteVars, held>>

SingletonNext == SConstruct \/ SDel

SpecSingleton == Init /\ [][SingletonNext]_vars

\* C16: two references got for the same resolved path are the same instance,
\* whose timeout and blocking are what the last successful construction asked
\* for; a construction ends in ValueError exactly when the path was registered
\* with another timeout or blocking, and it then changes neither the registry
\* nor the registered instance nor what the callers hold.
C16_SingletonIdentity ==
  [][/\ (\A k1 \in Refs, k2 \in Refs :
           (ref'[k1] # NoRef /\ ref'[k2] # NoRef /\ resolve(ref'[k1][2]) = resolve(ref'[k2][2]))
              => (ref'[k1][1] = ref'[k2][1]))
      /\ ((last_error' = "ValueError") =>
            (/\ UNCHANGED <<_instances, inst_timeout, inst_blocking, ref>>
             /\ _instances[last_call'[1]] # NoInstance
             /\ \/ inst_timeout[_instances[last_call'[1]]] # last_call'[2]
                \/ inst_blocking[_instances[last_call'[1]]] # last_call'[3]))
      /\ ((last_error' = "none" /\ last_call' # last_call) =>
            (/\ _instances'[last_call'[1]] # NoInstance
             /\ inst_timeout'[_instances'[last_call'[1]]] = last_call'[2]
             /\ inst_blocking'[_instances'[last_call'[1]]] = last_call'[3]))]_vars

\* Two callers hold the one instance registered for a.db, got under two
\* spellings, and a construction with another timeout has just been refused.
C16_Witness ==
  /\ ref[1] # NoRef /\ ref[2] # NoRef
  /\ ref[1][2] = "a.db" /\ ref[2][2] = "./a.db"
  /\ ref[1][1] = ref[2][1]
  /\ last_error = "ValueError"
  /\ last_call[1] = "a.db"


\* -------------------------------------------------------------- SpecSqlite
\* timeout_for_sqlite(timeout, blocking=..., already_waited=...): the
\* busy_timeout in milliseconds.
timeout_for_sqlite(timeout, blocking, already_waited) ==
  IF ~blocking THEN 0
  ELSE IF timeout = -1 THEN _MAX_SQLITE_TIMEOUT_MS
  ELSE LET left == IF timeout > 0 THEN Max(timeout - already_waited, 0) ELSE timeout
           timeout_ms == left * 1000
       IN IF timeout_ms > _MAX_SQLITE_TIMEOUT_MS \/ timeout_ms < 0
            THEN _MAX_SQLITE_TIMEOUT_MS ELSE timeout_ms

\* The database locks other connections hold: SHARED under a read transaction,
\* EXCLUSIVE under a write transaction.
OthersExclusive(i) == \E j \in SqInsts \ {i} : con[j] = "write"
OthersLocked(i) == \E j \in SqInsts \ {i} : con[j] \in {"read", "write"}

\* A mutated first check that re-enters a held lock whatever its mode.
SqAcquireAnyMode(t, m, tmo, b) ==
  LET i == sq_inst(t) IN
  /\ sq_pc[t] = "idle"
  /\ sq_call' = [sq_call EXCEPT ![t] = <<m, tmo, b>>]
  /\ IF _lock_level[i] > 0
       THEN /\ _lock_level' = [_lock_level EXCEPT ![i] = @ + 1]
            /\ sq_pc' = [sq_pc EXCEPT ![t] = "ok"]
       ELSE /\ sq_pc' = [sq_pc EXCEPT ![t] = "tlock"]
            /\ UNCHANGED _lock_level
  /\ UNCHANGED <<_current_mode, _write_thread_id, _transaction_lock, con>>

\* acquire_read / acquire_write, first check under _internal_lock: a held lock
\* is re-entered in the same mode (a write lock only by its thread), another
\* mode or thread raises RuntimeError; an unheld lock goes on to the
\* transaction lock.
SqAcquire(t, m, tmo, b) ==
  LET i == sq_inst(t) IN
  /\ sq_pc[t] = "idle"
  /\ sq_call' = [sq_call EXCEPT ![t] = <<m, tmo, b>>]
  /\ IF _lock_level[i] > 0
       THEN IF _current_mode[i] # m \/ (m = "write" /\ _write_thread_id[i] # t)
              THEN /\ sq_pc' = [sq_pc EXCEPT ![t] = "RuntimeError"]
                   /\ UNCHANGED _lock_level
              ELSE /\ _lock_level' = [_lock_level EXCEPT ![i] = @ + 1]
                   /\ sq_pc' = [sq_pc EXCEPT ![t] = "ok"]
       ELSE /\ sq_pc' = [sq_pc EXCEPT ![t] = "tlock"]
            /\ UNCHANGED _lock_level
  /\ UNCHANGED <<_current_mode, _write_thread_id, _transaction_lock, con>>

\* _acquire_transaction_lock: _transaction_lock.acquire(blocking) when timeout
\* is -1, else _transaction_lock.acquire(blocking, timeout), which raises
\* ValueError for a non-blocking call; not acquired raises Timeout.
SqTransactionLock(t) ==
  LET i == sq_inst(t)
      tmo == sq_call[t][2]
      b == sq_call[t][3]
  IN
  /\ sq_pc[t] = "tlock"
  /\ IF tmo # -1 /\ ~b
       THEN /\ sq_pc' = [sq_pc EXCEPT ![t] = "ValueError"]
            /\ UNCHANGED _transaction_lock
       ELSE IF _transaction_lock[i] = NoThread
         THEN /\ _transaction_lock' = [_transaction_lock EXCEPT ![i] = t]
              /\ sq_pc' = [sq_pc EXCEPT ![t] = "dcheck"]
         ELSE /\ ~b \/ tmo >= 0
              /\ sq_pc' = [sq_pc EXCEPT ![t] = "Timeout"]
              /\ UNCHANGED _transaction_lock
  /\ UNCHANGED <<_lock_level, _current_mode, _write_thread_id, con, sq_call>>

\* A mutated double check that returns or raises without the finally clause.
SqDoubleCheckKeepsLock(t) ==
  LET i == sq_inst(t)
      m == sq_call[t][1]
  IN
  /\ sq_pc[t] = "dcheck"
  /\ IF _lock_level[i] > 0
       THEN IF _current_mode[i] # m
              THEN /\ sq_pc' = [sq_pc EXCEPT ![t] = "RuntimeError"]
                   /\ UNCHANGED _lock_level
              ELSE /\ _lock_level' = [_lock_level EXCEPT ![i] = @ + 1]
                   /\ sq_pc' = [sq_pc EXCEPT ![t] = "ok"]
       ELSE /\ sq_pc' = [sq_pc EXCEPT ![t] = "pragma"]
            /\ UNCHANGED _lock_level
  /\ UNCHANGED <<_current_mode, _write_thread_id, _transaction_lock, con, sq_call>>

\* The double check under _internal_lock once the transaction lock is held;
\* finally: _transaction_lock.release() when the call ends here.
SqDoubleCheck(t) ==
  LET i == sq_inst(t)
      m == sq_call[t][1]
  IN
  /\ sq_pc[t] = "dcheck"
  /\ IF _lock_level[i] > 0
       THEN /\ IF _current_mode[i] # m
                 THEN /\ sq_pc' = [sq_pc EXCEPT ![t] = "RuntimeError"]
                      /\ UNCHANGED _lock_level
                 ELSE /\ _lock_level' = [_lock_level EXCEPT ![i] = @ + 1]
                      /\ sq_pc' = [sq_pc EXCEPT ![t] = "ok"]
            /\ _transaction_lock' = [_transaction_lock EXCEPT ![i] = NoThread]
       ELSE /\ sq_pc' = [sq_pc EXCEPT ![t] = "pragma"]
            /\ UNCHANGED <<_lock_level, _transaction_lock>>
  /\ UNCHANGED <<_current_mode, _write_thread_id, con, sq_call>>

\* PRAGMA busy_timeout; PRAGMA journal_mode=MEMORY, which reads the database:
\* under another connection's EXCLUSIVE lock it fails with "database is
\* locked" at once when busy_timeout is 0, and waits otherwise.
SqPragma(t) ==
  LET i == sq_inst(t) IN
  /\ sq_pc[t] = "pragma"
  /\ \E waited \in {0, 1} :
       LET timeout_ms == timeout_for_sqlite(sq_call[t][2], sq_call[t][3], waited) IN
       IF ~OthersExclusive(i)
         THEN /\ sq_pc' = [sq_pc EXCEPT ![t] = "begin"]
              /\ UNCHANGED _transaction_lock
         ELSE /\ timeout_ms = 0
              /\ sq_pc' = [sq_pc EXCEPT ![t] = "Timeout"]
              /\ _transaction_lock' = [_transaction_lock EXCEPT ![i] = NoThread]
  /\ UNCHANGED <<_lock_level, _current_mode, _write_thread_id, con, sq_call>>

\* BEGIN TRANSACTION; SELECT (SHARED lock) or BEGIN EXCLUSIVE TRANSACTION.  A
\* connection that is inside a transaction refuses BEGIN with an
\* OperationalError that is not "database is locked"; a SELECT refused by the
\* busy handler leaves the deferred transaction open.
SqBegin(t) ==
  LET i == sq_inst(t)
      m == sq_call[t][1]
  IN
  /\ sq_pc[t] = "begin"
  /\ \E waited \in {0, 1} :
       LET timeout_ms == timeout_for_sqlite(sq_call[t][2], sq_call[t][3], waited) IN
       IF con[i] # "none"
         THEN /\ sq_pc' = [sq_pc EXCEPT ![t] = "OperationalError"]
              /\ _transaction_lock' = [_transaction_lock EXCEPT ![i] = NoThread]
              /\ UNCHANGED con
         ELSE IF (m = "write" /\ ~OthersLocked(i)) \/ (m = "read" /\ ~OthersExclusive(i))
           THEN /\ con' = [con EXCEPT ![i] = m]
                /\ sq_pc' = [sq_pc EXCEPT ![t] = "commit"]
                /\ UNCHANGED _transaction_lock
           ELSE /\ timeout_ms = 0
                /\ con' = [con EXCEPT ![i] = IF m = "read" THEN "begun" ELSE "none"]
                /\ sq_pc' = [sq_pc EXCEPT ![t] = "Timeout"]
                /\ _transaction_lock' = [_transaction_lock EXCEPT ![i] = NoThread]
  /\ UNCHANGED <<_lock_level, _current_mode, _write_thread_id, sq_call>>

\* The busy handler of a positive busy_timeout below the maximum gives up.
SqBusyExpire(t) ==
  LET i == sq_inst(t)
      m == sq_call[t][1]
      timeout_ms == timeout_for_sqlite(sq_call[t][2], sq_call[t][3], 0)
  IN
  /\ timeout_ms > 0 /\ timeout_ms < _MAX_SQLITE_TIMEOUT_MS
  /\ \/ sq_pc[t] = "pragma" /\ OthersExclusive(i) /\ UNCHANGED con
     \/ /\ sq_pc[t] = "begin" /\ con[i] = "none"
        /\ IF m = "write" THEN OthersLocked(i) ELSE OthersExclusive(i)
        /\ con' = [con EXCEPT ![i] = IF m = "read" THEN "begun" ELSE "none"]
  /\ sq_pc' = [sq_pc EXCEPT ![t] = "Timeout"]
  /\ _transaction_lock' = [_transaction_lock EXCEPT ![i] = NoThread]
  /\ UNCHANGED <<_lock_level, _current_mode, _write_thread_id, sq_call>>

\* A mutated commit that does not record the writer's thread.
SqCommitNoThread(t) ==
  LET i == sq_inst(t)
      m == sq_call[t][1]
  IN
  /\ sq_pc[t] = "commit"
  /\ _current_mode' = [_current_mode EXCEPT ![i] = m]
  /\ _lock_level' = [_lock_level EXCEPT ![i] = 1]
  /\ _transaction_lock' = [_transaction_lock EXCEPT ![i] = NoThread]
  /\ sq_pc' = [sq_pc EXCEPT ![t] = "ok"]
  /\ UNCHANGED <<_write_thread_id, con, sq_call>>

\* with self._internal_lock: _current_mode = mode; _lock_level = 1;
\* (write) _write_thread_id = get_ident(); finally: _transaction_lock.release()
SqCommit(t) ==
  LET i == sq_inst(t)
      m == sq_call[t][1]
  IN
  /\ sq_pc[t] = "commit"
  /\ _current_mode' = [_current_mode EXCEPT ![i] = m]
  /\ _lock_level' = [_lock_level EXCEPT ![i] = 1]
  /\ _write_thread_id' = [_write_thread_id EXCEPT ![i] = IF m = "write" THEN t ELSE @]
  /\ _transaction_lock' = [_transaction_lock EXCEPT ![i] = NoThread]
  /\ sq_pc' = [sq_pc EXCEPT ![t] = "ok"]
  /\ UNCHANGED <<con, sq_call>>

\* A mutated release that treats an unheld lock as released: it returns without
\* raising and rolls the connection back.
SqReleaseUnheldSilent(t, force) ==
  LET i == sq_inst(t)
      level == IF force THEN 0 ELSE _lock_level[i] - 1
  IN
  /\ sq_pc[t] = "idle"
  /\ IF _lock_level[i] = 0
       THEN /\ sq_pc' = [sq_pc EXCEPT ![t] = "rollback"]
            /\ UNCHANGED <<_lock_level, _current_mode, _write_thread_id>>
       ELSE /\ _lock_level' = [_lock_level EXCEPT ![i] = level]
            /\ IF level = 0
                 THEN /\ _current_mode' = [_current_mode EXCEPT ![i] = "none"]
                      /\ _write_thread_id' = [_write_thread_id EXCEPT ![i] = NoThread]
                      /\ sq_pc' = [sq_pc EXCEPT ![t] = "rollback"]
                 ELSE UNCHANGED <<_current_mode, _write_thread_id, sq_pc>>
  /\ UNCHANGED <<_transaction_lock, con, sq_call>>

\* release(force=...) under _internal_lock; the rollback follows outside it.
SqRelease(t, force) ==
  LET i == sq_inst(t)
      level == IF force THEN 0 ELSE _lock_level[i] - 1
  IN
  /\ sq_pc[t] = "idle"
  /\ IF _lock_level[i] = 0
       THEN /\ sq_pc' = [sq_pc EXCEPT ![t] = IF force THEN "idle" ELSE "RuntimeError"]
            /\ UNCHANGED <<_lock_level, _current_mode, _write_thread_id>>
       ELSE /\ _lock_level' = [_lock_level EXCEPT ![i] = level]
            /\ IF level = 0
                 THEN /\ _current_mode' = [_current_mode EXCEPT ![i] = "none"]
                      /\ _write_thread_id' = [_write_thread_id EXCEPT ![i] = NoThread]
                      /\ sq_pc' = [sq_pc EXCEPT ![t] = "rollback"]
                 ELSE UNCHANGED <<_current_mode, _write_thread_id, sq_pc>>
  /\ UNCHANGED <<_transaction_lock, con, sq_call>>

\* if should_rollback: self.con.rollback()
SqRollback(t) ==
  /\ sq_pc[t] = "rollback"
  /\ con' = [con EXCEPT ![sq_inst(t)] = "none"]
  /\ sq_pc' = [sq_pc EXCEPT ![t] = "idle"]
  /\ UNCHANGED <<_lock_level, _current_mode, _write_thread_id, _transaction_lock, sq_call>>

\* The call returns or raises to its caller.
SqReturn(t) ==
  /\ sq_pc[t] \in {"ok", "Timeout", "RuntimeError", "ValueError", "OperationalError"}
  /\ sq_pc' = [sq_pc EXCEPT ![t] = "idle"]
  /\ sq_call' = [sq_call EXCEPT ![t] = <<"read", -1, TRUE>>]
  /\ UNCHANGED <<_lock_level, _current_mode, _write_thread_id, _transaction_lock, con>>

\* Handing a result to the caller touches nothing another thread reads, so it
\* is taken before any other step.
SqResultPending ==
  \E t \in SqThreads :
     sq_pc[t] \in {"ok", "Timeout", "RuntimeError", "ValueError", "OperationalError"}

notSqlite == <<kernelVars, lockVars, rwVars, softVars, historyVars, budget, threadVars, backend, winVars, held, singletonVars>>

QAcquire ==
  \E t \in SqThreads, m \in {"read", "write"}, tmo \in SqTimeouts, b \in BOOLEAN :
    /\ ~SqResultPending
    /\ _lock_level[sq_inst(t)] < MaxDepth
    /\ SqAcquire(t, m, tmo, b)
    /\ UNCHANGED notSqlite
QRelease ==
  \E t \in SqThreads, force \in BOOLEAN :
    ~SqResultPending /\ SqRelease(t, force) /\ UNCHANGED notSqlite
QTransactionLock == \E t \in SqThreads : ~SqResultPending /\ SqTransactionLock(t) /\ UNCHANGED notSqlite
QDoubleCheck == \E t \in SqThreads : ~SqResultPending /\ SqDoubleCheck(t) /\ UNCHANGED notSqlite
QPragma == \E t \in SqThreads : ~SqResultPending /\ SqPragma(t) /\ UNCHANGED notSqlite
QBegin == \E t \in SqThreads : ~SqResultPending /\ SqBegin(t) /\ UNCHANGED notSqlite
QBusyExpire == \E t \in SqThreads : ~SqResultPending /\ SqBusyExpire(t) /\ UNCHANGED notSqlite
QCommit == \E t \in SqThreads : ~SqResultPending /\ SqCommit(t) /\ UNCHANGED notSqlite
QRollback == \E t \in SqThreads : ~SqResultPending /\ SqRollback(t) /\ UNCHANGED notSqlite
QReturn == \E t \in SqThreads : SqReturn(t) /\ UNCHANGED notSqlite

SqNext ==
  \/ QAcquire \/ QRelease \/ QTransactionLock \/ QDoubleCheck \/ QPragma
  \/ QBegin \/ QBusyExpire \/ QCommit \/ QRollback \/ QReturn

SpecSqlite == Init /\ [][SqNext]_vars


\* C11: a check of acquire_write that finds the instance holding a read lock,
\* and a check of acquire_read that finds it holding a write lock, raises
\* RuntimeError, be it the first check of the call or the double check taken
\* with the transaction lock; the step leaves the lock level, the mode, the
\* writer thread and the connection's transaction as they were.
C11_ModeSwitchRaises ==
  [][\A t \in SqThreads :
       LET i == sq_inst(t) IN
       (/\ \/ sq_pc[t] = "idle" /\ sq_pc'[t] \in {"ok", "tlock", "RuntimeError"}
           \/ sq_pc[t] = "dcheck" /\ sq_pc'[t] # "dcheck"
        /\ _lock_level[i] > 0
        /\ _current_mode[i] # sq_call'[t][1])
          => (/\ sq_pc'[t] = "RuntimeError"
              /\ _lock_level'[i] = _lock_level[i]
              /\ _current_mode'[i] = _current_mode[i]
              /\ _write_thread_id'[i] = _write_thread_id[i]
              /\ con'[i] = con[i])]_vars

\* Thread 1 asked for the write lock on the instance that holds a read lock on
\* the database and got RuntimeError.
C11_Witness ==
  /\ sq_pc[1] = "RuntimeError"
  /\ sq_call[1][1] = "write"
  /\ _lock_level[1] > 0
  /\ _current_mode[1] = "read"
  /\ con[1] = "read"

\* C12: an acquire_write never returns successfully to a thread while the
\* instance holds a write lock that another thread acquired.
C12_WriterThreadPinned ==
  [][\A t \in SqThreads :
       LET i == sq_inst(t) IN
       (/\ sq_pc[t] # "ok" /\ sq_pc'[t] = "ok"
        /\ sq_call'[t][1] = "write")
          => ~(/\ _lock_level[i] > 0
               /\ _current_mode[i] = "write"
               /\ _write_thread_id[i] \notin {NoThread, t})]_vars

\* C19: an acquire with blocking=False ends by returning or by raising Timeout
\* (or the RuntimeError of a mode switch), never in ValueError.
C19_NonBlockingSingleAttempt ==
  \A t \in SqThreads :
     (sq_call[t][3] = FALSE /\ sq_pc[t] \notin {"idle", "tlock", "dcheck", "pragma", "begin", "commit", "rollback"})
        => sq_pc[t] \in {"ok", "Timeout", "RuntimeError"}


\* C30: whenever a UnixFileLock instance is locked, its descriptor is open on
\* the inode that the lock path names, and it holds the exclusive flock on it.
C30_LockedOnLinkedInode ==
  \A l \in UnixLocks :
     is_locked(l) =>
        /\ hInode[l] # NoInode
        /\ dirent[lock_file(l)] = hInode[l]
        /\ st_nlink(l) = 1
        /\ hLock[l] = "ex"

\* C30 witness: one instance is locked while another one still has a
\* descriptor open on the inode that a release unlinked.
C30_Witness ==
  \E l \in UnixLocks, m \in UnixLocks :
     /\ is_locked(l)
     /\ hInode[m] # NoInode
     /\ st_nlink(m) = 0


\* C28: a release on an instance whose lock level is 0 that does not return at
\* once (the forced one does) raises RuntimeError, and the step changes neither
\* the level, the mode, the writer thread, the transaction lock nor the
\* connection's transaction.  (At level 0 a thread leaves "idle" for "tlock"
\* by an acquire and for anything else by a release.)
C28_ReleaseUnheldRaises ==
  [][\A t \in SqThreads :
       LET i == sq_inst(t) IN
       (/\ sq_pc[t] = "idle"
        /\ _lock_level[i] = 0
        /\ sq_pc'[t] \notin {"idle", "tlock"})
          => (/\ sq_pc'[t] = "RuntimeError"
              /\ UNCHANGED <<_lock_level, _current_mode, _write_thread_id,
                             _transaction_lock, con>>)]_vars

\* C28 witness: thread 1 called release() on its instance at level 0, with no
\* transaction open on the connection, and got RuntimeError.
C28_Witness ==
  /\ sq_pc[1] = "RuntimeError"
  /\ sq_call[1] = <<"read", -1, TRUE>>
  /\ _lock_level[1] = 0
  /\ con[1] = "none"
  /\ _current_mode[1] = "none"


\* C29: release(force=True) on an object that is not locked returns at once:
\* the step changes neither the counter nor the descriptor, and neither the
\* directory entry, the open descriptors nor the flocks of any object.
C29_ForceUnheldIsNoop ==
  [][\A l \in LegacyLocks :
       (forced'[l] = -1 /\ forced[l] # -1)
          => (/\ ~is_locked(l)
              /\ UNCHANGED <<kernelVars, lock_file_fd, lock_counter, step, timed>>)]_vars

\* C29 witness: one object was force-released while not locked, and the other
\* object holds the flock on the lock file, which is still in place.
C29_Witness ==
  \E l \in LegacyLocks, m \in LegacyLocks :
     /\ l # m
     /\ forced[l] = -1
     /\ step[l] = "idle"
     /\ is_locked(m)
     /\ hLock[m] = "ex"
     /\ dirent[lock_file(m)] = hInode[m]


\* C27: once __del__ has run to its end on a legacy object whose acquires all
\* returned normally, the object is not locked and holds no flock, whatever
\* depth it was acquired to, so that another object can take the lock.
C27_FinalizerReleasesCompletely ==
  \A l \in LegacyLocks :
    (in_with[l] = "finalized" /\ step[l] = "idle" /\ acquires[l] >= 0) =>
       /\ ~is_locked(l)
       /\ hLock[l] = "un"


\* C23: a contender whose lifetime is set does not break (rename aside) the
\* lock file of a dead process while the lifetime has not elapsed since the
\* file's mtime, although the file is older than _STALE_LOCK_MIN_AGE.
C23_LifetimeGatesBreak ==
  [][\A l \in SoftLocks :
       (/\ lifetime(l) # "None"
        /\ step[l] = "rename"
        /\ soft_file = DeadPid
        /\ soft_old
        /\ ~soft_expired)
          => soft_file' = soft_file]_vars


\* C22: whatever the content of the lock file a SoftFileLock contender finds
\* (live pid, pid it may not signal, pid whose probe fails, foreign hostname,
\* empty file, single line, non-numeric pid), acquire raises nothing but
\* Timeout: the attempt counts as contended.
C22_UnknownHolderIsContended ==
  \A l \in SoftLocks : step[l] # "ValueError"


\* ------------------------------------------------------------ SpecSoftFair
\* Every step the process of instance l can take inside acquire() or release().
SStepOf(l) ==
  \/ SoftOpen(l) \/ SoftWrite(l) \/ SoftStat(l) \/ SoftRead(l) \/ SoftProbe(l)
  \/ SoftRename(l) \/ SoftUnlinkBreak(l) \/ SoftReleaseFd(l) \/ SoftUnlink(l)
  \/ ((AcquirePollOk(l) \/ AcquirePollRetry(l))
        /\ UNCHANGED <<rwVars, softVars, historyVars, budget, threadVars, backend, winVars, sqliteVars, singletonVars, held>>)

\* Every process keeps running the call it is in, however the others are
\* scheduled: a blocking acquire keeps polling.
SpecSoftFair ==
  /\ Init
  /\ [][SNext]_vars
  /\ \A l \in SoftLocks : SF_vars(SStepOf(l))

\* The lock file at the path is stale for instance l: it records the pid of a
\* dead local process, and is older than _STALE_LOCK_MIN_AGE and than the
\* lifetime of l if l has one.
StaleFor(l) ==
  /\ soft_file = DeadPid
  /\ soft_written
  /\ soft_lines = "pid_host"
  /\ soft_old
  /\ lifetime(l) # "None" => soft_expired

\* C21: when an instance is in a blocking acquire and the lock file at the path
\* is stale, eventually the path is locked by an instance again: by that
\* instance, unless another contender gets there first.
C21_StaleLockLiveness ==
  \A l \in SoftLocks :
    (/\ StaleFor(l)
     /\ step[l] \in {"open", "stat", "read", "probe", "rename", "poll"}
     /\ ~timed[l])
       ~> (\E m \in SoftLocks : is_locked(m))

\* C21 witness: an instance in a blocking acquire has moved the lock file of a
\* dead process aside, and the path is free.
C21_Witness ==
  \E l \in SoftLocks :
    /\ step[l] = "unlink_break"
    /\ soft_break[l] = DeadPid
    /\ ~timed[l]
    /\ soft_file = NoFile
    /\ \A m \in SoftLocks : ~is_locked(m)


\* ------------------------------------------------- WindowsFileLock._acquire
\* try: fd = os.open(lock_file, O_RDWR | O_CREAT | O_TRUNC); except OSError: pass.
\* The open fails when the path is a directory or its parent is missing.
WinOpen(l) ==
  /\ NoLocalPending
  /\ step[l] = "open"
  /\ IF win_path \in {"dir", "noparent"}
       THEN /\ step' = [step EXCEPT ![l] = "poll"]
            /\ UNCHANGED <<win_path, win_fd>>
       ELSE /\ win_path' = "file"
            /\ win_fd' = [win_fd EXCEPT ![l] = TRUE]
            /\ step' = [step EXCEPT ![l] = "locking"]
  /\ UNCHANGED <<kernelVars, lock_file_fd, lock_counter, timed, rwVars, softVars,
                 historyVars, budget, threadVars, backend, sqliteVars, singletonVars, held, win_lk>>

\* try: msvcrt.locking(fd, LK_NBLCK, 1); except OSError: os.close(fd);
\* else: self._lock_file_fd = fd
WinLocking(l) ==
  /\ NoLocalPending
  /\ step[l] = "locking"
  /\ IF win_lk = 0
       THEN /\ win_lk' = l[2]
            /\ lock_file_fd' = [lock_file_fd EXCEPT ![l] = TRUE]
            /\ UNCHANGED win_fd
       ELSE /\ win_fd' = [win_fd EXCEPT ![l] = FALSE]
            /\ UNCHANGED <<win_lk, lock_file_fd>>
  /\ step' = [step EXCEPT ![l] = "poll"]
  /\ UNCHANGED <<kernelVars, lock_counter, timed, rwVars, softVars,
                 historyVars, budget, threadVars, backend, sqliteVars, singletonVars, held, win_path>>

\* ------------------------------------------------- WindowsFileLock._release
\* fd = self._lock_file_fd; self._lock_file_fd = None
WinReleaseFd(l) ==
  /\ step[l] = "release"
  /\ lock_file_fd' = [lock_file_fd EXCEPT ![l] = FALSE]
  /\ step' = [step EXCEPT ![l] = "win_unlock"]
  /\ UNCHANGED <<kernelVars, lock_counter, timed, rwVars, softVars,
                 historyVars, budget, threadVars, backend, sqliteVars, singletonVars, held, winVars>>

\* msvcrt.locking(fd, LK_UNLCK, 1)
WinUnlock(l) ==
  /\ NoLocalPending
  /\ step[l] = "win_unlock"
  /\ win_lk' = IF win_lk = l[2] THEN 0 ELSE win_lk
  /\ step' = [step EXCEPT ![l] = "win_close"]
  /\ UNCHANGED <<kernelVars, lock_file_fd, lock_counter, timed, rwVars, softVars,
                 historyVars, budget, threadVars, backend, sqliteVars, singletonVars, held, win_path, win_fd>>

\* os.close(fd)
WinClose(l) ==
  /\ NoLocalPending
  /\ step[l] = "win_close"
  /\ win_fd' = [win_fd EXCEPT ![l] = FALSE]
  /\ step' = [step EXCEPT ![l] = "win_remove"]
  /\ UNCHANGED <<kernelVars, lock_file_fd, lock_counter, timed, rwVars, softVars,
                 historyVars, budget, threadVars, backend, sqliteVars, singletonVars, held, win_path, win_lk>>

\* try: os.remove(lock_file); except OSError: pass.  Windows refuses to remove
\* a file that another descriptor has open.
WinRemove(l) ==
  /\ NoLocalPending
  /\ step[l] = "win_remove"
  /\ win_path' = IF win_path = "file" /\ \A m \in WinLocks : ~win_fd[m] THEN "none" ELSE win_path
  /\ step' = [step EXCEPT ![l] = "idle"]
  /\ UNCHANGED <<kernelVars, lock_file_fd, lock_counter, timed, rwVars, softVars,
                 historyVars, budget, threadVars, backend, sqliteVars, singletonVars, held, win_fd, win_lk>>

\* ------------------------------------------------------------ SpecWindows
\* Each WindowsFileLock instance is driven by its own process.
notWindows == <<kernelVars, rwVars, softVars, historyVars, budget, threadVars, backend, sqliteVars, singletonVars, held>>
WAcquire ==
  \E l \in WinLocks, t \in BOOLEAN :
    /\ NoLocalPending
    /\ step[l] = "idle"
    /\ lock_counter[l] < MaxDepth
    /\ AcquireCall(l, t)
    /\ UNCHANGED <<rwVars, softVars, historyVars, budget, threadVars, backend, sqliteVars, singletonVars, held, winVars>>
WRelease ==
  \E l \in WinLocks, f \in BOOLEAN :
    /\ NoLocalPending
    /\ step[l] = "idle"
    /\ ReleaseCall(l, f)
    /\ UNCHANGED <<rwVars, softVars, historyVars, budget, threadVars, backend, sqliteVars, singletonVars, held, winVars>>
\* acquire() returns, or raises Timeout, to its caller.
WReturn ==
  \E l \in WinLocks :
    /\ step[l] \in {"ok", "timeout"}
    /\ step' = [step EXCEPT ![l] = "idle"]
    /\ UNCHANGED <<lock_file_fd, lock_counter, timed, notWindows, winVars>>
\* Another program makes the lock path a directory, or removes its parent
\* directory, while no instance is at work on it.
WSetPath ==
  \E k \in {"dir", "noparent"} :
    /\ win_path = "none"
    /\ \A l \in WinLocks : step[l] = "idle"
    /\ win_path' = k
    /\ UNCHANGED <<lockVars, notWindows, win_fd, win_lk>>
\* Another program removes the directory at the path, or creates the parent.
WClearPath ==
  /\ NoLocalPending
  /\ win_path \in {"dir", "noparent"}
  /\ win_path' = "none"
  /\ UNCHANGED <<lockVars, notWindows, win_fd, win_lk>>
WOpen == \E l \in WinLocks : WinOpen(l)
WLocking == \E l \in WinLocks : WinLocking(l)
WPollOk == \E l \in WinLocks : AcquirePollOk(l) /\ UNCHANGED <<rwVars, softVars, historyVars, budget, threadVars, backend, sqliteVars, singletonVars, held, winVars>>
WPollRetry == \E l \in WinLocks : AcquirePollRetry(l) /\ UNCHANGED <<rwVars, softVars, historyVars, budget, threadVars, backend, sqliteVars, singletonVars, held, winVars>>
WPollTimeout == \E l \in WinLocks : AcquirePollTimeout(l) /\ UNCHANGED <<rwVars, softVars, historyVars, budget, threadVars, backend, sqliteVars, singletonVars, held, winVars>>
WReleaseFd == \E l \in WinLocks : WinReleaseFd(l)
WUnlock == \E l \in WinLocks : WinUnlock(l)
WClose == \E l \in WinLocks : WinClose(l)
WRemove == \E l \in WinLocks : WinRemove(l)

WNext ==
  \/ WAcquire \/ WRelease \/ WReturn \/ WSetPath \/ WClearPath
  \/ WOpen \/ WLocking \/ WPollOk \/ WPollRetry \/ WPollTimeout
  \/ WReleaseFd \/ WUnlock \/ WClose \/ WRemove

SpecWindows == Init /\ [][WNext]_vars

\* C24: an attempt whose os.open fails because the lock path is a directory or
\* has no parent directory does not count as contention: the step that opens
\* does not go on to the poll loop's sleep and retry.
C24_OpenErrorIsRaised ==
  [][\A l \in WinLocks :
       (step[l] = "open" /\ win_path \in {"dir", "noparent"}) => step'[l] # "poll"]_vars


\* ------------------------------------- UnixFileLock._acquire without flock
\* os.open(lock_file, O_RDWR | O_TRUNC | O_NOFOLLOW | O_CREAT) on the filesystem
\* of the soft lock path: creates the file or empties the one that is there.
FbUnixOpen(l) ==
  /\ NoLocalPending
  /\ step[l] = "open"
  /\ backend[l] = "unix"
  /\ soft_file' = IF soft_file = NoFile THEN getpid(l) ELSE soft_file
  /\ soft_written' = FALSE
  /\ soft_lines' = "pid_host"
  /\ soft_old' = FALSE
  /\ soft_expired' = FALSE
  /\ step' = [step EXCEPT ![l] = "flock"]
  /\ UNCHANGED <<kernelVars, lock_file_fd, lock_counter, timed, rwVars, soft_seen, soft_break,
                 historyVars, budget, threadVars, sqliteVars, singletonVars, held, winVars, backend>>

\* fcntl.flock(fd, LOCK_EX | LOCK_NB) raises OSError(ENOSYS): os.close(fd);
\* raise NotImplementedError(msg).  The file stays at the path.
FbFlock(l) ==
  /\ NoLocalPending
  /\ step[l] = "flock"
  /\ step' = [step EXCEPT ![l] = "NotImplementedError"]
  /\ UNCHANGED <<kernelVars, lock_file_fd, lock_counter, timed, rwVars, softVars,
                 historyVars, budget, threadVars, sqliteVars, singletonVars, held, winVars, backend>>

\* The acquire loop on an unsupported primitive: swap this instance's backend
\* to the soft one for good and try again.
FbSwap(l) ==
  /\ step[l] = "NotImplementedError"
  /\ backend' = [backend EXCEPT ![l] = "soft"]
  /\ step' = [step EXCEPT ![l] = "open"]
  /\ UNCHANGED <<kernelVars, lock_file_fd, lock_counter, timed, rwVars, softVars,
                 historyVars, budget, threadVars, sqliteVars, singletonVars, held, winVars>>

\* ------------------------------------------------------------ SpecFallback
\* Each instance is driven by its own process.
notFallback == <<kernelVars, rwVars, historyVars, budget, threadVars, sqliteVars, singletonVars, held, winVars>>
FAcquire ==
  \E l \in FallbackLocks, t \in BOOLEAN :
    /\ NoLocalPending
    /\ step[l] = "idle"
    /\ lock_counter[l] < MaxDepth
    /\ AcquireCall(l, t)
    /\ UNCHANGED <<rwVars, softVars, historyVars, budget, threadVars, sqliteVars, singletonVars, held, winVars, backend>>
FRelease ==
  \E l \in FallbackLocks, f \in BOOLEAN :
    /\ NoLocalPending
    /\ step[l] = "idle"
    /\ ReleaseCall(l, f)
    /\ UNCHANGED <<rwVars, softVars, historyVars, budget, threadVars, sqliteVars, singletonVars, held, winVars, backend>>
\* acquire() returns, or raises Timeout, to its caller.
FReturn ==
  \E l \in FallbackLocks :
    /\ step[l] \in {"ok", "timeout"}
    /\ step' = [step EXCEPT ![l] = "idle"]
    /\ UNCHANGED <<lock_file_fd, lock_counter, timed, softVars, notFallback, backend>>
\* The process of a holder dies without releasing: its lock file stays, and a
\* new process with a new UnixFileLock object takes its place.
FCrash ==
  \E l \in FallbackLocks :
    /\ NoLocalPending
    /\ step[l] = "idle"
    /\ is_locked(l)
    /\ soft_file = getpid(l)
    /\ soft_file' = DeadPid
    /\ lock_file_fd' = [lock_file_fd EXCEPT ![l] = FALSE]
    /\ lock_counter' = [lock_counter EXCEPT ![l] = 0]
    /\ backend' = [backend EXCEPT ![l] = "unix"]
    /\ UNCHANGED <<step, timed, soft_written, soft_lines, soft_old, soft_expired,
                   soft_seen, soft_break, notFallback>>
\* Somebody removes the lock file by hand while no instance holds the lock.
FCleanup ==
  /\ NoLocalPending
  /\ soft_file # NoFile
  /\ \A l \in FallbackLocks : ~is_locked(l) /\ step[l] # "write"
  /\ soft_file' = NoFile
  /\ soft_written' = FALSE
  /\ soft_lines' = "pid_host"
  /\ soft_old' = FALSE
  /\ soft_expired' = FALSE
  /\ UNCHANGED <<lockVars, soft_seen, soft_break, notFallback, backend>>
FUnixOpen == \E l \in FallbackLocks : FbUnixOpen(l)
FFlock == \E l \in FallbackLocks : FbFlock(l)
FSwap == \E l \in FallbackLocks : FbSwap(l)
\* The steps of the soft backend, once the instance has been swapped to it.
FSoftStep(l) ==
  \/ backend[l] = "soft" /\ SoftOpen(l)
  \/ SoftWrite(l) \/ SoftStat(l) \/ SoftRead(l) \/ SoftProbe(l)
  \/ SoftRename(l) \/ SoftUnlinkBreak(l) \/ SoftReleaseFd(l) \/ SoftUnlink(l)
FSoft == \E l \in FallbackLocks : FSoftStep(l)
FPollOk == \E l \in FallbackLocks : AcquirePollOk(l) /\ UNCHANGED <<rwVars, softVars, historyVars, budget, threadVars, sqliteVars, singletonVars, held, winVars, backend>>
FPollRetry == \E l \in FallbackLocks : AcquirePollRetry(l) /\ UNCHANGED <<rwVars, softVars, historyVars, budget, threadVars, sqliteVars, singletonVars, held, winVars, backend>>
FPollTimeout == \E l \in FallbackLocks : AcquirePollTimeout(l) /\ UNCHANGED <<rwVars, softVars, historyVars, budget, threadVars, sqliteVars, singletonVars, held, winVars, backend>>

FNext ==
  \/ FAcquire \/ FRelease \/ FReturn \/ FCrash \/ FCleanup \/ STick
  \/ FUnixOpen \/ FFlock \/ FSwap \/ FSoft
  \/ FPollOk \/ FPollRetry \/ FPollTimeout

SpecFallback == Init /\ [][FNext]_vars

\* Every step the process of instance l can take inside acquire() or release().
FStepOf(l) ==
  \/ FbUnixOpen(l) \/ FbFlock(l) \/ FbSwap(l) \/ FSoftStep(l)
  \/ ((AcquirePollOk(l) \/ AcquirePollRetry(l))
        /\ UNCHANGED <<rwVars, softVars, historyVars, budget, threadVars, sqliteVars, singletonVars, held, winVars, backend>>)

\* Every process keeps running the call it is in: a blocking acquire keeps
\* polling.  Nobody is bound to remove lock files by hand.
SpecFallbackFair ==
  /\ Init
  /\ [][FNext]_vars
  /\ \A l \in FallbackLocks : SF_vars(FStepOf(l))

\* C25: when flock has reported ENOSYS to an instance in a blocking acquire,
\* the path is eventually locked through the soft backend: by that instance,
\* unless another one gets there first.
C25_FallbackAcquireCompletes ==
  \A l \in FallbackLocks :
    (step[l] = "NotImplementedError" /\ ~timed[l])
       ~> (\E m \in FallbackLocks : is_locked(m))


\* ------------------------------------ BaseAsyncReadWriteFileLock.acquire
\* The coroutine has the statements of the synchronous acquire, with an await
\* at each call on the inner and the outer lock.
\* await inner_lock.acquire(...) is cancelled, or raises, while the inner
\* acquire sleeps between two attempts; the inner lock is left as it was.
ARWInnerCancelled(o) ==
  /\ rw_pc[o] = "inner"
  /\ step[_inner_lock(o)] = "poll"
  /\ ~is_locked(_inner_lock(o))
  /\ step' = [step EXCEPT ![_inner_lock(o)] = "cancelled"]
  /\ timed' = [timed EXCEPT ![_inner_lock(o)] = FALSE]
  /\ UNCHANGED <<kernelVars, lock_file_fd, lock_counter, rwVars, softVars, historyVars, budget, threadVars,
                 backend, winVars, sqliteVars, singletonVars, held>>

\* READ: try: await inner_lock.acquire(...) finally: await outer_lock.release()
ARWReadCancelled(o) ==
  /\ rw_pc[o] = "inner"
  /\ read_write_mode(o) = "read"
  /\ step[_inner_lock(o)] = "cancelled"
  /\ ReleaseCall(_outer_lock(o), FALSE)
  /\ rw_pc' = [rw_pc EXCEPT ![o] = "unouter"]
  /\ UNCHANGED <<rw_timed, rw_depth, softVars, historyVars, budget, threadVars, backend, winVars, sqliteVars, singletonVars, held>>

\* WRITE: await inner_lock.acquire(...) stands outside any try: the exception
\* leaves acquire() at once.
ARWWriteCancelled(o) ==
  /\ rw_pc[o] = "inner"
  /\ read_write_mode(o) = "write"
  /\ step[_inner_lock(o)] = "cancelled"
  /\ rw_pc' = [rw_pc EXCEPT ![o] = "idle"]
  /\ step' = [step EXCEPT ![_inner_lock(o)] = "idle", ![_outer_lock(o)] = "idle"]
  /\ UNCHANGED <<kernelVars, lock_file_fd, lock_counter, timed, rw_timed, rw_depth, softVars, historyVars, budget, threadVars,
                 backend, winVars, sqliteVars, singletonVars, held>>

\* The objects of SpecRW, used in async with blocks that can be cancelled.
ARWNext ==
  \/ RWNext
  \/ \E o \in RWObjs : ARWInnerCancelled(o)
  \/ \E o \in RWObjs : ARWReadCancelled(o)
  \/ \E o \in RWObjs : ARWWriteCancelled(o)

SpecRWAsync == Init /\ [][ARWNext]_vars

\* C26: when the exception of a cancelled inner acquire leaves acquire(), the
\* object holds neither the outer nor the inner lock and both counters are 0,
\* as they were before the call, in read mode and in write mode.
C26_CancelRestoresLocks ==
  [][\A o \in RWObjs :
       (/\ rw_pc[o] \in {"inner", "unouter"}
        /\ step[_inner_lock(o)] = "cancelled"
        /\ rw_pc'[o] = "idle")
          => /\ ~is_locked(_outer_lock(o))'
             /\ ~is_locked(_inner_lock(o))'
             /\ lock_counter'[_outer_lock(o)] = 0
             /\ lock_counter'[_inner_lock(o)] = 0]_vars

\* ------------------------- filelock.py: one FileLock shared by several threads
\* The threads of one process call acquire and release on the same object, so
\* they share _lock_counter, _lock_file_fd and _thread_lock.  step and timed of
\* <<"thr", i>> are the position and the timeout of thread i's running call.
notThreads ==
  <<lock_file_fd, lock_counter, rwVars, softVars, historyVars, budget, held, singletonVars,
    sqliteVars, winVars, backend>>
\* self.is_locked(): return self._lock_file_fd is not None
th_is_locked == _lock_file_fd # 0

\* acquire(timeout): with self._thread_lock: self._lock_counter += 1
ThAcquire(th, t) ==
  /\ step[<<"thr", th>>] = "idle"
  /\ _thread_lock = 0
  /\ _lock_counter' = _lock_counter + 1
  /\ step' = [step EXCEPT ![<<"thr", th>>] = "loop"]
  /\ timed' = [timed EXCEPT ![<<"thr", th>>] = t]
  /\ UNCHANGED <<kernelVars, _lock_file_fd, _thread_lock, completed, released, notThreads>>

\* while not self.is_locked(): self._acquire() ...; else return self
ThLoop(th) ==
  /\ step[<<"thr", th>>] = "loop"
  /\ step' = [step EXCEPT ![<<"thr", th>>] = IF th_is_locked THEN "ok" ELSE "open"]
  /\ UNCHANGED <<kernelVars, timed, threadVars, notThreads>>

\* _acquire: fd = os.open(self._lock_file, O_RDWR | O_CREAT | O_TRUNC)
ThOpen(th) ==
  /\ step[<<"thr", th>>] = "open"
  /\ LET p == lock_file(<<"thr", th>>)
     IN /\ dirent' = [dirent EXCEPT ![p] = LiveInode(p)]
        /\ hInode' = [hInode EXCEPT ![<<"thr", th>>] = LiveInode(p)]
  /\ step' = [step EXCEPT ![<<"thr", th>>] = "flock"]
  /\ UNCHANGED <<hLock, timed, threadVars, notThreads>>

\* _acquire: fcntl.flock(fd, LOCK_EX | LOCK_NB); except (IOError, OSError): os.close(fd)
ThFlock(th) ==
  /\ step[<<"thr", th>>] = "flock"
  /\ IF FlockGranted(<<"thr", th>>, FALSE)
       THEN /\ hLock' = [hLock EXCEPT ![<<"thr", th>>] = "ex"]
            /\ step' = [step EXCEPT ![<<"thr", th>>] = "set_fd"]
            /\ UNCHANGED hInode
       ELSE /\ hInode' = AfterClose(<<"thr", th>>)
            /\ step' = [step EXCEPT ![<<"thr", th>>] = "check"]
            /\ UNCHANGED hLock
  /\ UNCHANGED <<dirent, timed, threadVars, notThreads>>

\* _acquire: else: self._lock_file_fd = fd
ThSetFd(th) ==
  /\ step[<<"thr", th>>] = "set_fd"
  /\ _lock_file_fd' = th
  /\ step' = [step EXCEPT ![<<"thr", th>>] = "check"]
  /\ UNCHANGED <<kernelVars, timed, _lock_counter, _thread_lock, completed, released, notThreads>>

\* if timeout is not None and time.time() - start_time > timeout: raise Timeout;
\* except: with self._thread_lock: self._lock_counter = max(0, self._lock_counter - 1); raise
ThRaise(th) ==
  /\ step[<<"thr", th>>] = "check"
  /\ timed[<<"thr", th>>]
  /\ _thread_lock = 0
  /\ _lock_counter' = Max(0, _lock_counter - 1)
  /\ step' = [step EXCEPT ![<<"thr", th>>] = "timeout"]
  /\ timed' = [timed EXCEPT ![<<"thr", th>>] = FALSE]
  /\ completed' = IF _lock_file_fd = th THEN -1 ELSE completed
  /\ UNCHANGED <<kernelVars, _lock_file_fd, _thread_lock, released, notThreads>>

\* time.sleep(poll_intervall), and back to the test of the while loop
ThSleep(th) ==
  /\ step[<<"thr", th>>] = "check"
  /\ step' = [step EXCEPT ![<<"thr", th>>] = "loop"]
  /\ UNCHANGED <<kernelVars, timed, threadVars, notThreads>>

\* acquire() returns self to the calling thread: one more completed acquire.
ThReturn(th) ==
  /\ step[<<"thr", th>>] = "ok"
  /\ step' = [step EXCEPT ![<<"thr", th>>] = "idle"]
  /\ timed' = [timed EXCEPT ![<<"thr", th>>] = FALSE]
  /\ completed' = IF completed >= 0 THEN completed + 1 ELSE completed
  /\ UNCHANGED <<kernelVars, _lock_counter, _lock_file_fd, _thread_lock, released, notThreads>>

\* acquire() has raised Timeout to the calling thread.
ThRaised(th) ==
  /\ step[<<"thr", th>>] = "timeout"
  /\ step' = [step EXCEPT ![<<"thr", th>>] = "idle"]
  /\ UNCHANGED <<kernelVars, timed, threadVars, notThreads>>

\* release(force): with self._thread_lock: if self.is_locked():
\* self._lock_counter -= 1; if self._lock_counter == 0 or force: self._release() ...
\* The thread keeps _thread_lock until _release is through.  The calls balance
\* when every completed acquire has had its release, or when force released all;
\* a forced release with nothing to release is not counted.
ThRelease(th, force) ==
  /\ step[<<"thr", th>>] = "idle"
  /\ _thread_lock = 0
  /\ IF th_is_locked
       THEN /\ _lock_counter' = _lock_counter - 1
            /\ IF _lock_counter - 1 = 0 \/ force
                 THEN /\ _thread_lock' = th
                      /\ step' = [step EXCEPT ![<<"thr", th>>] = "unlock"]
                 ELSE UNCHANGED <<_thread_lock, step>>
       ELSE UNCHANGED <<_lock_counter, _thread_lock, step>>
  /\ IF (force /\ th_is_locked) \/ (completed >= 0 /\ released + 1 = completed)
       THEN completed' = 0 /\ released' = 0
       ELSE IF completed = released
              THEN UNCHANGED <<completed, released>>
              ELSE released' = released + 1 /\ UNCHANGED completed
  /\ UNCHANGED <<kernelVars, timed, _lock_file_fd, notThreads>>

\* _release: fcntl.flock(self._lock_file_fd, LOCK_UN)
ThUnlock(th) ==
  /\ step[<<"thr", th>>] = "unlock"
  /\ hLock' = [hLock EXCEPT ![<<"thr", _lock_file_fd>>] = "un"]
  /\ step' = [step EXCEPT ![<<"thr", th>>] = "close_fd"]
  /\ UNCHANGED <<dirent, hInode, timed, threadVars, notThreads>>

\* _release: os.close(self._lock_file_fd)
ThClose(th) ==
  /\ step[<<"thr", th>>] = "close_fd"
  /\ hInode' = AfterClose(<<"thr", _lock_file_fd>>)
  /\ step' = [step EXCEPT ![<<"thr", th>>] = "clear_fd"]
  /\ UNCHANGED <<dirent, hLock, timed, threadVars, notThreads>>

\* _release: self._lock_file_fd = None
ThClearFd(th) ==
  /\ step[<<"thr", th>>] = "clear_fd"
  /\ _lock_file_fd' = 0
  /\ step' = [step EXCEPT ![<<"thr", th>>] = "remove"]
  /\ UNCHANGED <<kernelVars, timed, _lock_counter, _thread_lock, completed, released, notThreads>>

\* _release: os.remove(self._lock_file), OSError ignored; then release sets
\* self._lock_counter = 0 and leaves the with-block of _thread_lock.
ThRemove(th) ==
  /\ step[<<"thr", th>>] = "remove"
  /\ LET p == lock_file(<<"thr", th>>) IN
       IF dirent[p] = NoInode
         THEN UNCHANGED <<dirent, hInode>>
         ELSE /\ hInode' = AfterUnlink(p)
              /\ dirent' = [dirent EXCEPT ![p] = NoInode]
  /\ _lock_counter' = 0
  /\ _thread_lock' = 0
  /\ step' = [step EXCEPT ![<<"thr", th>>] = "idle"]
  /\ UNCHANGED <<hLock, timed, _lock_file_fd, completed, released, notThreads>>

\* -------------------------------------------------------------- SpecThreads
\* A thread releases what some thread acquired: release() is called while a
\* completed acquire awaits its release.  The threads do not force a release
\* (SpecLegacy covers force).
TAcquire ==
  \E th \in ThreadIds, t \in BOOLEAN :
    /\ _lock_counter < MaxDepth
    /\ completed < MaxDepth
    /\ ThAcquire(th, t)
TRelease ==
  \E th \in ThreadIds :
    /\ completed # released
    /\ released < MaxDepth
    /\ _lock_counter > -MaxDepth
    /\ ThRelease(th, FALSE)
TLoop == \E th \in ThreadIds : ThLoop(th)
TOpen == \E th \in ThreadIds : ThOpen(th)
TFlock == \E th \in ThreadIds : ThFlock(th)
TSetFd == \E th \in ThreadIds : ThSetFd(th)
TRaise == \E th \in ThreadIds : ThRaise(th)
TSleep == \E th \in ThreadIds : ThSleep(th)
TReturn == \E th \in ThreadIds : ThReturn(th)
TRaised == \E th \in ThreadIds : ThRaised(th)
TUnlock == \E th \in ThreadIds : ThUnlock(th)
TClose == \E th \in ThreadIds : ThClose(th)
TClearFd == \E th \in ThreadIds : ThClearFd(th)
TRemove == \E th \in ThreadIds : ThRemove(th)

TNext ==
  \/ TAcquire \/ TRelease \/ TLoop \/ TOpen \/ TFlock \/ TSetFd \/ TRaise \/ TSleep
  \/ TReturn \/ TRaised \/ TUnlock \/ TClose \/ TClearFd \/ TRemove

SpecThreads == Init /\ [][TNext]_vars

\* C31: with one lock object shared by the threads, whenever no call is in
\* progress and no acquire has raised after taking the lock itself, the OS lock
\* is released exactly when the release calls made by any threads equal the
\* completed acquire calls.
C31_ReleasedWhenCallsBalance ==
  ((\A th \in ThreadIds : step[<<"thr", th>>] = "idle") /\ completed >= 0)
     => ((_lock_file_fd = 0) <=> (completed = released))

\* C32: in every reachable state a WRITE object that holds its inner lock also
\* holds its outer lock, in the object's state and in the kernel's.
C32_WriterKeepsOuter ==
  \A w \in Writers :
    /\ is_locked(_inner_lock(w)) => is_locked(_outer_lock(w))
    /\ hLock[_inner_lock(w)] = "ex" => hLock[_outer_lock(w)] = "ex"

\* C32 witness: a writer nested two deep holds both locks, and a reader waits
\* on the outer file.
C32_Witness ==
  \E w \in Writers, r \in Readers :
    /\ lock_counter[_inner_lock(w)] = 2
    /\ lock_counter[_outer_lock(w)] = 2
    /\ hLock[_inner_lock(w)] = "ex"
    /\ hLock[_outer_lock(w)] = "ex"
    /\ rw_pc[w] = "idle"
    /\ rw_pc[r] = "outer"

\* C33: once a read-mode acquire has returned or raised, the READ object holds
\* no outer lock: its outer lock is not locked, has no descriptor open and no
\* flock, whether or not the object holds the inner lock.
C33_ReaderDropsOuter ==
  \A r \in Readers :
    rw_pc[r] \notin {"outer", "inner", "unouter"}
      => /\ ~is_locked(_outer_lock(r))
         /\ lock_counter[_outer_lock(r)] = 0
         /\ hLock[_outer_lock(r)] = "un"
         /\ hInode[_outer_lock(r)] = NoInode

\* C33 witness: a reader's acquire has returned, the reader holds the inner
\* lock, and a writer has taken the outer lock after it and waits for the inner.
C33_Witness ==
  \E r \in Readers, w \in Writers :
    /\ rw_pc[r] = "idle"
    /\ hLock[_inner_lock(r)] = "sh"
    /\ is_locked(_inner_lock(r))
    /\ hLock[_outer_lock(w)] = "ex"
    /\ rw_pc[w] = "inner"

\* C34: an acquire on an object that already holds the lock in its own mode
\* (re-entry) waits on no lock file: neither of its locks finds its file locked
\* by another object and goes to sleep in the poll loop.
C34_ReentryDoesNotWait ==
  \A o \in RWObjs :
    (rw_pc[o] \in {"outer", "inner"} /\ is_locked(_inner_lock(o)))
      => \A l \in {_inner_lock(o), _outer_lock(o)} : ~(step[l] = "poll" /\ ~is_locked(l))

\* ------------------------------------ read/write acquire: the timeout budget
\* Time is counted in ticks of the clock; the poll interval is one tick.
Timeouts == -1 .. MaxTimeout
Min(a, b) == IF a <= b THEN a ELSE b

\* read_write/_api.py: if timeout: timeout -= dur
remaining(timeout, dur) == IF timeout # 0 THEN timeout - dur ELSE timeout
\* read_write/asyncio/_api.py: if timeout is not None: timeout -= dur
remainingAsync(timeout, dur) == timeout - dur

notBudget ==
  <<kernelVars, lockVars, rwVars, softVars, historyVars, held, singletonVars, sqliteVars,
    winVars, backend, threadVars>>

\* acquire(timeout=T): start_time = time.monotonic(); outer_lock.acquire(timeout=timeout, ...)
BudgetCall ==
  \E c \in {"sync", "async"}, T \in Timeouts :
    /\ budget.pc = "idle"
    /\ budget' = [pc |-> "outer", cls |-> c, arg |-> T, timeout |-> T, elapsed |-> 0]
    /\ UNCHANGED notBudget

\* The calls take time: the clock has moved on by a tick.
BudgetTick ==
  /\ budget.pc \in {"outer", "dur"}
  /\ budget.elapsed <= MaxTimeout
  /\ budget' = [budget EXCEPT !.elapsed = @ + 1]
  /\ UNCHANGED notBudget

\* The outer lock's acquire loop: try_acquire succeeds and the call returns.
BudgetOuterAcquired ==
  /\ budget.pc = "outer"
  /\ budget' = [budget EXCEPT !.pc = "dur"]
  /\ UNCHANGED notBudget

\* The outer lock's acquire loop, contended: raise Timeout when timeout == 0 or
\* timeout > 0 and elapsed > timeout; else sleep min(poll_interval, remaining budget).
BudgetOuterContended ==
  /\ budget.pc = "outer"
  /\ IF budget.timeout = 0 \/ (budget.timeout > 0 /\ budget.elapsed > budget.timeout)
       THEN budget' = [pc |-> "idle", cls |-> "sync", arg |-> 0, timeout |-> 0, elapsed |-> 0]
       ELSE /\ budget.elapsed <= MaxTimeout
            /\ budget' = [budget EXCEPT !.elapsed =
                            IF budget.timeout > 0 THEN @ + Min(1, budget.timeout - @) ELSE @ + 1]
  /\ UNCHANGED notBudget

\* dur = time.monotonic() - start_time; the timeout for the inner acquire
BudgetDur ==
  /\ budget.pc = "dur"
  /\ budget' = [budget EXCEPT !.pc = "inner",
                              !.timeout = IF budget.cls = "sync" THEN remaining(@, budget.elapsed)
                                          ELSE remainingAsync(@, budget.elapsed)]
  /\ UNCHANGED notBudget

\* inner_lock.acquire(timeout=timeout, ...) is called; a negative timeout waits
\* without a limit.  The call ends and the object takes the next one.
BudgetInner ==
  /\ budget.pc = "inner"
  /\ budget' = [pc |-> "idle", cls |-> "sync", arg |-> 0, timeout |-> 0, elapsed |-> 0]
  /\ UNCHANGED notBudget

BudgetNext ==
  \/ BudgetCall \/ BudgetTick \/ BudgetOuterAcquired \/ BudgetOuterContended
  \/ BudgetDur \/ BudgetInner

SpecBudget == Init /\ [][BudgetNext]_vars

\* C35: for an acquire called with a timeout T >= 0, the timeout passed to the
\* inner-lock acquire is never negative.
C35_InnerTimeoutNotNegative ==
  (budget.pc = "inner" /\ budget.arg >= 0) => budget.timeout >= 0

\* BaseReadWriteFileLock.lock_counter:
\* return self._inner_lock.lock_counter + self._outer_lock.lock_counter
rw_lock_counter(o) == lock_counter[_inner_lock(o)] + lock_counter[_outer_lock(o)]

\* C36: between calls, lock_counter of a read/write object equals the number of
\* acquire calls on the object that have not yet been released, in read mode
\* and in write mode.
C36_CounterIsDepth ==
  \A o \in RWObjs : rw_pc[o] = "idle" => rw_lock_counter(o) = rw_depth[o]

\* C37: in every reachable state of a ReadWriteLock instance the lock level is
\* not negative, the mode is None exactly when the level is 0, and the write
\* thread id is set exactly when the mode is write.
C37_LevelModeThread ==
  \A i \in SqInsts :
    /\ _lock_level[i] >= 0
    /\ (_current_mode[i] = "none") <=> (_lock_level[i] = 0)
    /\ (_write_thread_id[i] # NoThread) <=> (_current_mode[i] = "write")

\* C37 witness: a release has just brought the level of a write lock to 0 and
\* cleared the mode and the write thread id; the rollback of the write
\* transaction is still to come.
C37_Witness ==
  \E t \in SqThreads :
    /\ sq_pc[t] = "rollback"
    /\ con[sq_inst(t)] = "write"
    /\ _lock_level[sq_inst(t)] = 0
    /\ _current_mode[sq_inst(t)] = "none"
    /\ _write_thread_id[sq_inst(t)] = NoThread

\* C38: a thread whose acquire_read or acquire_write has returned or raised, or
\* that makes no call or is inside release, does not hold the instance's
\* transaction lock; the lock is held only by a thread inside an acquire.
C38_TransactionLockReleased ==
  \A t \in SqThreads :
    sq_pc[t] \in {"idle", "ok", "Timeout", "RuntimeError", "ValueError", "OperationalError",
                  "rollback", "tlock"}
      => _transaction_lock[sq_inst(t)] # t

\* C38 witness: an acquire that took the transaction lock failed at BEGIN with
\* an OperationalError other than "database is locked", and the transaction
\* lock is free again while the instance's other thread waits to call.
C38_Witness ==
  \E t \in SqThreads :
    /\ sq_pc[t] = "OperationalError"
    /\ _transaction_lock[sq_inst(t)] = NoThread
    /\ \E u \in SqThreads \ {t} : sq_inst(u) = sq_inst(t) /\ sq_pc[u] = "idle"

\* C39: when acquire_read or acquire_write has raised Timeout, the instance's
\* connection has no transaction open that the call began and no level is held
\* for: a transaction begun without a database lock.
C39_TimeoutLeavesNoTransaction ==
  \A t \in SqThreads : sq_pc[t] = "Timeout" => con[sq_inst(t)] # "begun"

\* C40: the rollback of a release that brought the level to 0 takes effect
\* before another thread's acquire on the instance begins its transaction: no
\* thread executes BEGIN while a rollback is still to come on its connection.
C40_RollbackBeforeBegin ==
  [][\A t \in SqThreads :
       (sq_pc[t] = "begin" /\ sq_pc'[t] # "begin")
          => ~\E u \in SqThreads \ {t} : sq_inst(u) = sq_inst(t) /\ sq_pc[u] = "rollback"]_vars

====
